---- MODULE Spec2Model ----
(***************************************************************************)
(* Control-flow-graph construction of backend/app/cfg_utils.py             *)
(* (class CFGGenerator), as a state machine.  The recursive descent of the *)
(* builder over the syntax tree is made explicit by a stack of frames      *)
(* (`kont'): every action is the straight-line piece of one handler        *)
(* between two recursive calls.                                            *)
(*                                                                         *)
(* Syntax trees are records named after the javalang node classes the     *)
(* builder dispatches on.  Block labels are kept as a structural tag plus  *)
(* the list of appended line annotations; the substring tests the code     *)
(* performs on labels ("METHOD EXIT" in label, "WHILE CONDITION" in label) *)
(* are tests on the tag, source lines being assumed not to spell a tag.    *)
(***************************************************************************)
EXTENDS Integers, Sequences, FiniteSets, TLC

(***************************************************************************)
(* Bounds of the model                                                     *)
(***************************************************************************)
\* largest integer literal occurring in a loop condition
MaxLit == 2
\* longest statement list of a generated loop / branch body
MaxBody == 2
\* most cases in a generated switch
MaxCases == 2

None == 0 - 1

(***************************************************************************)
(* Syntax trees (javalang.tree)                                            *)
(***************************************************************************)
Literal(v) == [t |-> "Literal", value |-> v]
MemberReference(m) == [t |-> "MemberReference", member |-> m, prefix_operators |-> <<>>, postfix_operators |-> <<>>]
Postfix(m, o) == [t |-> "MemberReference", member |-> m, prefix_operators |-> <<>>, postfix_operators |-> <<o>>]
Prefix(m, o) == [t |-> "MemberReference", member |-> m, prefix_operators |-> <<o>>, postfix_operators |-> <<>>]
BinaryOperation(o, l, r) == [t |-> "BinaryOperation", operator |-> o, operandl |-> l, operandr |-> r]
MethodInvocation(m) == [t |-> "MethodInvocation", member |-> m]
Assignment(m, ty, v) == [t |-> "Assignment", expressionl |-> MemberReference(m), type |-> ty, value |-> v]
NoExpr == [t |-> "None"]

NoStmt == [k |-> "None"]
StatementExpression(e) == [k |-> "StatementExpression", expression |-> e]
LocalVariableDeclaration == [k |-> "LocalVariableDeclaration"]
ReturnStatement == [k |-> "ReturnStatement"]
BreakStatement == [k |-> "BreakStatement"]
ContinueStatement == [k |-> "ContinueStatement"]
BlockStatement(ss) == [k |-> "BlockStatement", statements |-> ss]
IfStatement(c, th, el) == [k |-> "IfStatement", condition |-> c, then_statement |-> th, else_statement |-> el]
WhileStatement(c, b) == [k |-> "WhileStatement", condition |-> c, body |-> b]
DoStatement(c, b) == [k |-> "DoStatement", condition |-> c, body |-> b]
\* control: "ForControl" (condition NoExpr when absent, update a list of
\* expressions) or "EnhancedForControl"
ForStatement(ctl, c, u, b) == [k |-> "ForStatement", control |-> ctl, condition |-> c, update |-> u, body |-> b]
SwitchStatementCase(isdefault, ss) == [default |-> isdefault, statements |-> ss]
SwitchStatement(cs) == [k |-> "SwitchStatement", cases |-> cs]
\* body = <<FALSE, <<>>>> for a declaration without body
MethodDeclaration(c, n, hasBody, ss) == [class |-> c, name |-> n, has_body |-> hasBody, body |-> ss]

Call(m) == StatementExpression(MethodInvocation(m))

(***************************************************************************)
(* Literals: str(value) of a javalang Literal is its source text           *)
(***************************************************************************)
DigitStr == <<"0", "1", "2", "3", "4">>
IsDigit(s) == \E i \in 1..Len(DigitStr) : DigitStr[i] = s
NumOf(s) == (CHOOSE i \in 1..Len(DigitStr) : DigitStr[i] = s) - 1
NumLit(n) == Literal(DigitStr[n + 1])

(***************************************************************************)
(* Text of the condition's source line, as the pattern tests see it.       *)
(* javalang gives a position to Literal, MemberReference and               *)
(* MethodInvocation nodes and none to a BinaryOperation.  The input is     *)
(* laid out one statement header per line, so that after the two re.sub    *)
(* calls `cond_only' is the bare condition for a while loop, keeps the     *)
(* init and update clauses for a for loop, and keeps "}while(" and ");"    *)
(* for a do-while loop.                                                    *)
(***************************************************************************)
HasPosition(c) == c.t \in {"Literal", "MemberReference", "MethodInvocation"}

RECURSIVE ExprText(_)
ExprText(c) ==
    CASE c.t = "Literal" -> c.value
      [] c.t = "MemberReference" -> c.member
      [] c.t = "BinaryOperation" -> ExprText(c.operandl) \o c.operator \o ExprText(c.operandr)
      [] c.t = "MethodInvocation" -> c.member \o "()"
      [] OTHER -> ""

CondOnly(kind, c) ==
    CASE kind = "while" -> ExprText(c)
      [] kind = "for" -> ";" \o ExprText(c) \o ";"
      [] OTHER -> "}while(" \o ExprText(c) \o ");"

infinite_patterns ==
    {"true", "1==1", "true==true", "1!=0", "true!=false", "(true)", "(1==1)",
     "1<2", "2>1", "true||false", "1", "true&&true", "!false"}

never_run_patterns ==
    {"false", "0", "1==0", "false==true", "1>2", "2<1", "(false)", "(1==0)",
     "true&&false", "!true"}

BothLiteral(c) ==
    /\ c.t = "BinaryOperation"
    /\ c.operandl.t = "Literal"
    /\ c.operandr.t = "Literal"

(***************************************************************************)
(* _is_always_false_condition                                              *)
(***************************************************************************)
IsAlwaysFalseCondition(kind, c) ==
    IF c.t = "None" THEN FALSE
    ELSE
      \/ c.t = "Literal" /\ c.value \in {"false", "0"}
      \/ /\ BothLiteral(c)
         /\ LET l == c.operandl.value
                r == c.operandr.value
                op == c.operator
                digits == IsDigit(l) /\ IsDigit(r)
            IN  \/ op = "==" /\ l # r
                \/ op = "!=" /\ l = r
                \/ digits /\ op = "<" /\ NumOf(l) >= NumOf(r)
                \/ digits /\ op = ">" /\ NumOf(l) <= NumOf(r)
      \/ HasPosition(c) /\ CondOnly(kind, c) \in never_run_patterns

(***************************************************************************)
(* _is_infinite_loop_condition                                             *)
(***************************************************************************)
IsInfiniteLoopCondition(kind, c) ==
    IF c.t = "None" THEN TRUE
    ELSE
      \/ c.t = "Literal" /\ c.value \in {"true", "1"}
      \/ /\ BothLiteral(c)
         /\ \/ c.operator = "==" /\ c.operandl.value = c.operandr.value
            \/ c.operator = "!=" /\ c.operandl.value # c.operandr.value
      \/ HasPosition(c) /\ CondOnly(kind, c) \in infinite_patterns

(***************************************************************************)
(* _extract_variables_from_expression                                      *)
(***************************************************************************)
RECURSIVE ExtractVariablesFromExpression(_)
ExtractVariablesFromExpression(e) ==
    CASE e.t = "MemberReference" -> {e.member}
      [] e.t = "BinaryOperation" ->
            ExtractVariablesFromExpression(e.operandl) \cup ExtractVariablesFromExpression(e.operandr)
      [] e.t = "Assignment" ->
            ExtractVariablesFromExpression(e.expressionl) \cup ExtractVariablesFromExpression(e.value)
      [] OTHER -> {}

IsExpr(x) == "t" \in DOMAIN x
HasOperators(e) == e.postfix_operators # <<>> \/ e.prefix_operators # <<>>
InOps(o, ops) == \E i \in 1..Len(ops) : ops[i] = o

(***************************************************************************)
(* _extract_modified_variables: argument is a statement or, for the update *)
(* clause of a for loop, a bare expression                                 *)
(***************************************************************************)
RECURSIVE ExtractModifiedVariables(_)
ExtractModifiedVariables(x) ==
    IF IsExpr(x)
    THEN IF x.t = "MemberReference" /\ HasOperators(x) THEN {x.member} ELSE {}
    ELSE CASE x.k = "StatementExpression" ->
                LET e == x.expression
                IN  CASE e.t = "Assignment" -> {e.expressionl.member}
                      [] e.t = "MemberReference" -> IF HasOperators(e) THEN {e.member} ELSE {}
                      [] OTHER -> {}
           [] x.k = "BlockStatement" ->
                UNION {ExtractModifiedVariables(x.statements[i]) : i \in 1..Len(x.statements)}
           [] OTHER -> {}

\* direction recorded for a MemberReference carrying ++ / -- (postfix first)
OperatorDirection(e, dirs) ==
    LET ops == IF e.postfix_operators # <<>> THEN e.postfix_operators ELSE e.prefix_operators
    IN  IF ops = <<>> THEN dirs
        ELSE IF InOps("++", ops) THEN (e.member :> "increment") @@ dirs
        ELSE IF InOps("--", ops) THEN (e.member :> "decrement") @@ dirs
        ELSE dirs

\* javalang's Assignment node carries the operator in `type'; it has no
\* attribute `operator', so hasattr(expr, 'operator') is false
AssignmentHasOperatorAttr == FALSE

CompoundDirection(e, dirs) ==
    IF AssignmentHasOperatorAttr /\ e.expressionl.t = "MemberReference"
    THEN IF e.type = "+=" THEN (e.expressionl.member :> "increment") @@ dirs
         ELSE IF e.type = "-=" THEN (e.expressionl.member :> "decrement") @@ dirs
         ELSE dirs
    ELSE dirs

\* a = a + k, a = a - k, a = k + a, a = k - a
SelfArithmeticDirection(e, dirs) ==
    IF e.expressionl.t = "MemberReference" /\ e.value.t = "BinaryOperation"
    THEN LET v == e.expressionl.member
             b == e.value
             selfLeft == b.operandl.t = "MemberReference" /\ b.operandl.member = v /\ b.operandr.t = "Literal"
             selfRight == b.operandr.t = "MemberReference" /\ b.operandr.member = v /\ b.operandl.t = "Literal"
         IN  IF selfLeft \/ selfRight
             THEN IF b.operator = "+" THEN (v :> "increment") @@ dirs
                  ELSE IF b.operator = "-" THEN (v :> "decrement") @@ dirs
                  ELSE dirs
             ELSE dirs
    ELSE dirs

(***************************************************************************)
(* _analyze_modification_direction: the dictionary after the statement     *)
(***************************************************************************)
RECURSIVE AnalyzeModificationDirection(_, _)
RECURSIVE DirectionsOfList(_, _, _)
AnalyzeModificationDirection(stmt, dirs) ==
    CASE stmt.k = "StatementExpression" ->
            LET e == stmt.expression
            IN  CASE e.t = "Assignment" -> SelfArithmeticDirection(e, CompoundDirection(e, dirs))
                  [] e.t = "MemberReference" -> OperatorDirection(e, dirs)
                  [] OTHER -> dirs
      [] stmt.k = "BlockStatement" -> DirectionsOfList(stmt.statements, 1, dirs)
      [] OTHER -> dirs
DirectionsOfList(ss, i, dirs) ==
    IF i > Len(ss) THEN dirs
    ELSE DirectionsOfList(ss, i + 1, AnalyzeModificationDirection(ss[i], dirs))

EmptyDirs == [v \in {} |-> "unknown"]
DirOf(dirs, v) == IF v \in DOMAIN dirs THEN dirs[v] ELSE "unknown"

\* the statements of the loop body the analysis iterates over
BodyStatements(body) ==
    IF body.k = "BlockStatement" THEN body.statements ELSE <<body>>

BodyModifiedVariables(body) ==
    UNION {ExtractModifiedVariables(BodyStatements(body)[i]) : i \in 1..Len(BodyStatements(body))}

Verdict(inf, why) == [is_infinite |-> inf, reason |-> why]

(***************************************************************************)
(* _analyze_loop_termination(condition_node, loop_body); `kind' only       *)
(* selects the source line the pattern test reads                          *)
(***************************************************************************)
AnalyzeLoopTermination(kind, c, body) ==
    IF c.t = "None" THEN Verdict(TRUE, "No condition")
    ELSE IF c.t = "Literal" /\ c.value \in {"true", "1"} THEN Verdict(TRUE, "Always true literal")
    ELSE IF /\ BothLiteral(c)
            /\ LET l == c.operandl.value
                   r == c.operandr.value
                   op == c.operator
                   digits == IsDigit(l) /\ IsDigit(r)
               IN  \/ op = "==" /\ l = r
                   \/ op = "!=" /\ l # r
                   \/ digits /\ op = "<" /\ NumOf(l) < NumOf(r)
                   \/ digits /\ op = ">" /\ NumOf(l) > NumOf(r)
                   \/ digits /\ op = "<=" /\ NumOf(l) <= NumOf(r)
                   \/ digits /\ op = ">=" /\ NumOf(l) >= NumOf(r)
         THEN Verdict(TRUE, "Always true comparison")
    ELSE LET condition_vars == ExtractVariablesFromExpression(c)
             modified_vars == BodyModifiedVariables(body)
             dirs == DirectionsOfList(BodyStatements(body), 1, EmptyDirs)
             condition_vars_modified == condition_vars \cap modified_vars
         IN
         IF condition_vars = {}
         THEN IF HasPosition(c) /\ CondOnly(kind, c) \in infinite_patterns
              THEN Verdict(TRUE, "Always true pattern")
              ELSE Verdict(FALSE, "No variables to analyze")
         ELSE IF condition_vars_modified = {}
         THEN Verdict(TRUE, "Condition variables not modified in loop body")
         ELSE IF c.t # "BinaryOperation"
         THEN Verdict(FALSE, "Unable to determine")
         ELSE LET op == c.operator
                  left == c.operandl
                  right == c.operandr
                  lhs == /\ left.t = "MemberReference"
                         /\ right.t = "Literal"
                         /\ left.member \in condition_vars_modified
                  rhs == /\ right.t = "MemberReference"
                         /\ left.t = "Literal"
                         /\ right.member \in condition_vars_modified
                  dl == IF lhs THEN DirOf(dirs, left.member) ELSE "unknown"
                  dr == IF rhs THEN DirOf(dirs, right.member) ELSE "unknown"
              IN  IF lhs /\ op \in {">", ">="} /\ dl = "increment" THEN Verdict(TRUE, "incremented, stays true")
                  ELSE IF lhs /\ op \in {">", ">="} /\ dl = "decrement" THEN Verdict(FALSE, "decremented, can become false")
                  ELSE IF lhs /\ op \in {"<", "<="} /\ dl = "decrement" THEN Verdict(TRUE, "decremented, stays true")
                  ELSE IF lhs /\ op \in {"<", "<="} /\ dl = "increment" THEN Verdict(FALSE, "incremented, can become false")
                  ELSE IF rhs /\ op = ">" /\ dr = "decrement" THEN Verdict(TRUE, "decremented, stays true")
                  ELSE IF rhs /\ op = ">" /\ dr = "increment" THEN Verdict(FALSE, "incremented, can become false")
                  ELSE IF rhs /\ op = "<" /\ dr = "increment" THEN Verdict(TRUE, "incremented, stays true")
                  ELSE IF rhs /\ op = "<" /\ dr = "decrement" THEN Verdict(FALSE, "decremented, can become false")
                  ELSE Verdict(FALSE, "Unable to determine")


(***************************************************************************)
(* State of one CFGGenerator instance and of the call generate(java_code)  *)
(***************************************************************************)
VARIABLES
    prog,               \* the parsed tree: the method declarations in traversal order
    kont,               \* pending handler frames, innermost last (the Python call stack)
    cfg_nodes,          \* self.cfg nodes: block B<i> is cfg_nodes[i + 1], its label
    cfg_edges,          \* self.cfg edges, pairs <<from, to>> of block numbers
    current_block,      \* self.current_block
    block_counter,      \* self.block_counter
    in_infinite_loop,   \* self.in_infinite_loop
    call_stack,         \* self.call_stack, pairs <<method key, entry block>>
    method_map,         \* self.method_map: key -> index of the declaration in prog
    method_entries,     \* self.method_entries
    method_exits,       \* self.method_exits: key -> list of exit blocks
    node_method_map,    \* self.node_method_map
    log,                \* history: what each finished handler did (not program state)
    java_code,          \* the text handed to generate or to a function of utils.py
    line_map,           \* self.line_map: line number -> trimmed text of the line
    pc,                 \* where generate, or the function of utils.py, stands
    parses,             \* history: the texts handed to javalang.parse.parse, in order
    result              \* what the function of utils.py has returned

vars == <<prog, kont, cfg_nodes, cfg_edges, current_block, block_counter,
          in_infinite_loop, call_stack, method_map, method_entries,
          method_exits, node_method_map, log, java_code, line_map, pc, parses,
          result>>

\* what the translation of a parsed tree leaves alone: the text, its line
\* map, and the state of the functions that run before the translation
front == <<java_code, line_map, pc, parses, result>>

\* the mutable fields of the generator as one value, for the handlers' helpers
Gen == [nodes |-> cfg_nodes, edges |-> cfg_edges, current_block |-> current_block,
        block_counter |-> block_counter, in_infinite_loop |-> in_infinite_loop,
        call_stack |-> call_stack, method_entries |-> method_entries,
        method_exits |-> method_exits, node_method_map |-> node_method_map]

Commit(g) ==
    /\ cfg_nodes' = g.nodes
    /\ cfg_edges' = g.edges
    /\ current_block' = g.current_block
    /\ block_counter' = g.block_counter
    /\ in_infinite_loop' = g.in_infinite_loop
    /\ call_stack' = g.call_stack
    /\ method_entries' = g.method_entries
    /\ method_exits' = g.method_exits
    /\ node_method_map' = g.node_method_map

Label(tag, of) == [tag |-> tag, of |-> of, lines |-> <<>>]
TagOf(g, b) == g.nodes[b + 1].tag
Get(f, key) == IF key \in DOMAIN f THEN f[key] ELSE None
Put(f, key, val) == (key :> val) @@ f
EmptyMap == [x \in {} |-> None]

\* no text: the tree is given as parsed
NoText == <<>>

(***************************************************************************)
(* _new_block: the block created is number g.block_counter                 *)
(***************************************************************************)
NewBlock(g, tag, of) ==
    LET id == g.block_counter
    IN  [g EXCEPT !.nodes = Append(@, Label(tag, of)),
                  !.block_counter = @ + 1,
                  !.node_method_map =
                      IF g.call_stack # <<>>
                      THEN Put(@, id, g.call_stack[Len(g.call_stack)][1])
                      ELSE @]

IsLoopConditionTag(tag) == tag \in {"WHILE CONDITION", "FOR CONDITION", "DO-WHILE CONDITION"}

(***************************************************************************)
(* _connect_blocks                                                         *)
(***************************************************************************)
ConnectBlocks(g, from, to) ==
    IF g.in_infinite_loop /\ from # to /\ IsLoopConditionTag(TagOf(g, from))
    THEN g
    ELSE [g EXCEPT !.edges = @ \cup {<<from, to>>}]

(***************************************************************************)
(* _add_statement_to_block and the label += of _process_method_invocation  *)
(***************************************************************************)
AppendLine(g, b, what) ==
    [g EXCEPT !.nodes[b + 1].lines = Append(@, what)]

\* _get_statement_text, for lines of less than 100 characters
GetStatementText(line_no) ==
    IF line_no \in DOMAIN line_map THEN line_map[line_no] ELSE ""

\* the tree carries the line number of the node (node.position.line)
CarriesLine(node) == "line" \in DOMAIN node

\* a node with a position is annotated `L<line>: <text of line_map>`; where
\* the tree carries no positions the annotation is kept as the node's kind
StatementLine(stmt) ==
    IF CarriesLine(stmt)
    THEN [line |-> stmt.line, text |-> GetStatementText(stmt.line)]
    ELSE IF IsExpr(stmt) THEN stmt.t
    ELSE IF stmt.k = "StatementExpression" THEN stmt.expression.t
    ELSE stmt.k

AddStatementToBlock(g, stmt) == AppendLine(g, g.current_block, StatementLine(stmt))

(***************************************************************************)
(* _is_reachable_from                                                      *)
(***************************************************************************)
RECURSIVE ReachSet(_, _)
ReachSet(edges, seen) ==
    LET more == {e[2] : e \in {x \in edges : x[1] \in seen}} \ seen
    IN  IF more = {} THEN seen ELSE ReachSet(edges, seen \cup more)

IsReachableFrom(g, start, target) == target \in ReachSet(g.edges, {start})

Blocks(g) == 0..(g.block_counter - 1)
IsExit(g, b) == TagOf(g, b) = "METHOD EXIT"

\* blocks of a set in increasing number, the order cfg.nodes() lists them
RECURSIVE SortedSeq(_)
SortedSeq(S) ==
    IF S = {} THEN <<>>
    ELSE LET m == CHOOSE x \in S : \A y \in S : x <= y
         IN  <<m>> \o SortedSeq(S \ {m})

ReachableExits(g, entry) ==
    SortedSeq({b \in Blocks(g) : IsExit(g, b) /\ IsReachableFrom(g, entry, b)})

SetMethodIfAbsent(g, b, key) ==
    IF b \in DOMAIN g.node_method_map THEN g
    ELSE [g EXCEPT !.node_method_map = Put(@, b, key)]

RECURSIVE SetMethodIfAbsentAll(_, _, _)
SetMethodIfAbsentAll(g, bs, key) ==
    IF bs = <<>> THEN g
    ELSE SetMethodIfAbsentAll(SetMethodIfAbsent(g, Head(bs), key), Tail(bs), key)

RECURSIVE ConnectAll(_, _, _)
ConnectAll(g, froms, to) ==
    IF froms = <<>> THEN g
    ELSE ConnectAll(ConnectBlocks(g, Head(froms), to), Tail(froms), to)

Top == kont[Len(kont)]
Pop == SubSeq(kont, 1, Len(kont) - 1)
Running == kont # <<>>
StmtFrame(s) == [f |-> "stmt", stmt |-> s]
AtStmt(kind) == Running /\ Top.f = "stmt" /\ Top.stmt.k = kind

(***************************************************************************)
(* _process_tree, first pass: method_map[Class.name] and method_map[name]  *)
(* are assigned for each declaration in turn, a later one overwriting      *)
(***************************************************************************)
RECURSIVE CollectMethods(_, _, _)
CollectMethods(ms, i, map) ==
    IF i > Len(ms) THEN map
    ELSE CollectMethods(ms, i + 1,
            Put(Put(map, ms[i].class \o "." \o ms[i].name, i), ms[i].name, i))

ProcessTree ==
    /\ pc = "process_tree"
    /\ kont = <<[f |-> "generate"]>>
    /\ method_map' = CollectMethods(prog, 1, EmptyMap)
    /\ kont' = <<[f |-> "tree", i |-> 1]>>
    /\ UNCHANGED <<front, prog, cfg_nodes, cfg_edges, current_block, block_counter,
                   in_infinite_loop, call_stack, method_entries, method_exits,
                   node_method_map, log>>

\* second pass: for path, node in tree: self._process_method(node)
NextMethod ==
    /\ Running /\ Top.f = "tree"
    /\ kont' = IF Top.i <= Len(prog)
               THEN Pop \o <<[f |-> "tree", i |-> Top.i + 1], [f |-> "method", decl |-> prog[Top.i]]>>
               ELSE Pop
    /\ UNCHANGED <<front, prog, cfg_nodes, cfg_edges, current_block, block_counter,
                   in_infinite_loop, call_stack, method_map, method_entries,
                   method_exits, node_method_map, log>>

PopCallStack(g, key) ==
    IF g.call_stack # <<>> /\ g.call_stack[Len(g.call_stack)][1] = key
    THEN [g EXCEPT !.call_stack = SubSeq(@, 1, Len(@) - 1)]
    ELSE g

(***************************************************************************)
(* _process_method up to the call of _process_block                        *)
(***************************************************************************)
MethodEntered(g, key) ==
    LET g1 == [g EXCEPT !.in_infinite_loop = FALSE,
                        !.call_stack = Append(@, <<key, None>>)]
        entry == g1.block_counter
        g2 == NewBlock(g1, "METHOD ENTRY", key)
    IN  [g2 EXCEPT !.current_block = entry,
                   !.method_entries = Put(@, key, entry),
                   !.node_method_map = Put(@, entry, key),
                   !.call_stack[Len(g2.call_stack)] = <<key, entry>>]

\* _process_method without its guard at lines 130-132
NeverProcessed(key) == FALSE

AlreadyProcessed(key) == key \in DOMAIN method_entries

ProcessMethod ==
    /\ Running /\ Top.f = "method"
    /\ LET key == Top.decl.name
           g == MethodEntered(Gen, key)
       IN  IF AlreadyProcessed(key)
           THEN /\ kont' = Pop
                /\ UNCHANGED <<cfg_nodes, cfg_edges, current_block, block_counter,
                               in_infinite_loop, call_stack, method_entries,
                               method_exits, node_method_map, log>>
           ELSE IF Top.decl.has_body /\ Top.decl.body # <<>>
           THEN /\ Commit(g)
                /\ kont' = Pop \o <<[f |-> "method_end", key |-> key, entry |-> g.current_block],
                                    [f |-> "block", stmts |-> Top.decl.body, i |-> 1]>>
                /\ log' = log
           ELSE /\ Commit(PopCallStack(g, key))
                /\ kont' = Pop
                /\ log' = Append(log, [e |-> "method", key |-> key, entry |-> g.current_block,
                                       exits |-> <<>>, body |-> FALSE])
    /\ UNCHANGED <<front, prog, method_map>>

\* the first successor of the current block that is a METHOD EXIT, if any
ExitSuccessors(g) ==
    SortedSeq({b \in Blocks(g) : <<g.current_block, b>> \in g.edges /\ IsExit(g, b)})

(***************************************************************************)
(* _process_method after _process_block: the exits of the method           *)
(***************************************************************************)
MethodExits(g, key, entry) ==
    LET cur == g.current_block
        notExit == cur # None /\ ~IsExit(g, cur)
        succ == ExitSuccessors(g)
        fresh == g.block_counter
        \* [g, exits] after the if / else at lines 155-175
        r1 == IF notExit
              THEN IF succ # <<>>
                   THEN [g |-> g, exits |-> <<Head(succ)>>]
                   ELSE [g |-> [ConnectBlocks(NewBlock(g, "METHOD EXIT", ""), cur, fresh)
                                   EXCEPT !.node_method_map = Put(@, fresh, key)],
                         exits |-> <<fresh>>]
              ELSE [g |-> SetMethodIfAbsentAll(g, ReachableExits(g, entry), key),
                    exits |-> ReachableExits(g, entry)]
        fresh2 == r1.g.block_counter
        g3 == NewBlock(r1.g, "METHOD EXIT", "")
        g4 == IF cur # None THEN ConnectBlocks(g3, cur, fresh2) ELSE g3
    IN  IF r1.exits # <<>>
        THEN [r1.g EXCEPT !.method_exits = Put(@, key, r1.exits)]
        ELSE [g4 EXCEPT !.method_exits = Put(@, key, <<fresh2>>),
                        !.node_method_map = Put(@, fresh2, key)]

MethodEnd ==
    /\ Running /\ Top.f = "method_end"
    /\ LET g == MethodExits(Gen, Top.key, Top.entry)
       IN  /\ Commit(PopCallStack(g, Top.key))
           /\ log' = Append(log, [e |-> "method", key |-> Top.key, entry |-> Top.entry,
                                  exits |-> g.method_exits[Top.key], body |-> TRUE])
    /\ kont' = Pop
    /\ UNCHANGED <<front, prog, method_map>>

(***************************************************************************)
(* _process_block: one turn of its loop                                    *)
(***************************************************************************)
\* _process_block without the test of in_infinite_loop
ProcessBlockThrough ==
    /\ Running /\ Top.f = "block"
    /\ IF Top.i > Len(Top.stmts)
       THEN kont' = Pop
       ELSE kont' = Pop \o <<[Top EXCEPT !.i = @ + 1], StmtFrame(Top.stmts[Top.i])>>
    /\ UNCHANGED <<front, prog, cfg_nodes, cfg_edges, current_block, block_counter,
                   in_infinite_loop, call_stack, method_map, method_entries,
                   method_exits, node_method_map, log>>

ProcessBlock ==
    /\ Running /\ Top.f = "block"
    /\ IF Top.i > Len(Top.stmts)
       THEN kont' = Pop /\ log' = log
       ELSE IF in_infinite_loop
       THEN /\ kont' = Pop
            /\ log' = Append(log, [e |-> "skip", after |-> current_block,
                                   nblocks |-> block_counter,
                                   skipped |-> SubSeq(Top.stmts, Top.i, Len(Top.stmts))])
       ELSE /\ kont' = Pop \o <<[Top EXCEPT !.i = @ + 1], StmtFrame(Top.stmts[Top.i])>>
            /\ log' = log
    /\ UNCHANGED <<front, prog, cfg_nodes, cfg_edges, current_block, block_counter,
                   in_infinite_loop, call_stack, method_map, method_entries,
                   method_exits, node_method_map>>

(***************************************************************************)
(* _process_statement: BlockStatement, ReturnStatement and the statements  *)
(* that are only appended to the current block                             *)
(***************************************************************************)
ProcessBlockStatement ==
    /\ AtStmt("BlockStatement")
    /\ kont' = Pop \o <<[f |-> "block", stmts |-> Top.stmt.statements, i |-> 1]>>
    /\ UNCHANGED <<front, prog, cfg_nodes, cfg_edges, current_block, block_counter,
                   in_infinite_loop, call_stack, method_map, method_entries,
                   method_exits, node_method_map, log>>

Returned(g, stmt) ==
    LET g1 == AddStatementToBlock(g, stmt)
        end_block == g1.block_counter
        g2 == ConnectBlocks(NewBlock(g1, "METHOD EXIT", ""), g1.current_block, end_block)
    IN  [g2 EXCEPT !.current_block = end_block]

ProcessReturn ==
    /\ AtStmt("ReturnStatement")
    /\ Commit(Returned(Gen, Top.stmt))
    /\ log' = Append(log, [e |-> "return", block |-> current_block, exit |-> block_counter])
    /\ kont' = Pop
    /\ UNCHANGED <<front, prog, method_map>>

IsInvocation(stmt) ==
    stmt.k = "StatementExpression" /\ stmt.expression.t = "MethodInvocation"

IsPlain(stmt) ==
    \/ stmt.k \in {"LocalVariableDeclaration", "BreakStatement", "ContinueStatement"}
    \/ stmt.k = "StatementExpression" /\ ~IsInvocation(stmt)

ProcessPlainStatement ==
    /\ Running /\ Top.f = "stmt" /\ IsPlain(Top.stmt)
    /\ Commit(AddStatementToBlock(Gen, Top.stmt))
    /\ kont' = Pop
    /\ UNCHANGED <<front, prog, method_map, log>>

(***************************************************************************)
(* _process_if_statement                                                   *)
(***************************************************************************)
IfEntered(g) ==
    LET cond_block == g.block_counter
        then_block == cond_block + 1
        g1 == ConnectBlocks(NewBlock(g, "IF CONDITION", ""), g.current_block, cond_block)
        g2 == ConnectBlocks(NewBlock(g1, "THEN BRANCH", ""), cond_block, then_block)
    IN  [g2 EXCEPT !.current_block = then_block]

ProcessIf ==
    /\ AtStmt("IfStatement")
    /\ Commit(IfEntered(Gen))
    /\ kont' = Pop \o <<[f |-> "if_then", node |-> Top.stmt, cond_block |-> block_counter,
                         then_block |-> block_counter + 1],
                        StmtFrame(Top.stmt.then_statement)>>
    /\ UNCHANGED <<front, prog, method_map, log>>

\* from the creation of the merge block to the call for the else branch, or
\* to the end when there is none
IfThenDone(g, node, cond_block, then_block) ==
    LET merge_block == g.block_counter
        g1 == ConnectBlocks(NewBlock(g, "IF MERGE", ""), then_block, merge_block)
        else_block == g1.block_counter
        g2 == ConnectBlocks(NewBlock(g1, "ELSE BRANCH", ""), cond_block, else_block)
    IN  IF node.else_statement.k # "None"
        THEN [g2 EXCEPT !.current_block = else_block]
        ELSE [ConnectBlocks(g1, cond_block, merge_block) EXCEPT !.current_block = merge_block]

IfAfterThen ==
    /\ Running /\ Top.f = "if_then"
    /\ Commit(IfThenDone(Gen, Top.node, Top.cond_block, Top.then_block))
    /\ IF Top.node.else_statement.k # "None"
       THEN /\ kont' = Pop \o <<[f |-> "if_else", cond_block |-> Top.cond_block,
                                 then_block |-> Top.then_block, then_end |-> current_block,
                                 merge_block |-> block_counter, else_block |-> block_counter + 1],
                                StmtFrame(Top.node.else_statement)>>
            /\ log' = log
       ELSE /\ kont' = Pop
            /\ log' = Append(log, [e |-> "if", cond_block |-> Top.cond_block,
                                   then_block |-> Top.then_block, then_end |-> current_block,
                                   has_else |-> FALSE, else_block |-> None, else_end |-> None,
                                   merge_block |-> block_counter])
    /\ UNCHANGED <<front, prog, method_map>>

IfElseDone(g, else_block, merge_block) ==
    [ConnectBlocks(g, else_block, merge_block) EXCEPT !.current_block = merge_block]

IfAfterElse ==
    /\ Running /\ Top.f = "if_else"
    /\ Commit(IfElseDone(Gen, Top.else_block, Top.merge_block))
    /\ log' = Append(log, [e |-> "if", cond_block |-> Top.cond_block,
                           then_block |-> Top.then_block, then_end |-> Top.then_end,
                           has_else |-> TRUE, else_block |-> Top.else_block,
                           else_end |-> current_block, merge_block |-> Top.merge_block])
    /\ kont' = Pop
    /\ UNCHANGED <<front, prog, method_map>>

(***************************************************************************)
(* The end of a loop translation, shared by the three loop handlers:       *)
(* an exit block for a loop not classified infinite, the suppressed-edge   *)
(* mode otherwise                                                          *)
(***************************************************************************)
LoopExit(g, cond_block, is_infinite) ==
    LET exit_block == g.block_counter
    IN  IF ~is_infinite
        THEN [ConnectBlocks(NewBlock(g, "LOOP EXIT", ""), cond_block, exit_block)
                 EXCEPT !.current_block = exit_block]
        ELSE [g EXCEPT !.in_infinite_loop = TRUE, !.current_block = cond_block]

LoopEvent(kind, verdict, pred, init, cond, body, exit, flagBefore) ==
    [e |-> "loop", kind |-> kind, verdict |-> verdict, pred |-> pred, init_block |-> init,
     cond_block |-> cond, body_block |-> body, exit_block |-> exit, flag_before |-> flagBefore,
     node |-> Top.node]

(***************************************************************************)
(* _process_while_statement                                                *)
(***************************************************************************)
WhileIsInfinite(node) ==
    \/ AnalyzeLoopTermination("while", node.condition, node.body).is_infinite
    \/ IsInfiniteLoopCondition("while", node.condition)

\* _process_while_statement connecting the loop whatever never_runs says
WhileEnteredConnected(g, node) ==
    LET cond_block == g.block_counter
        body_block == cond_block + 1
        g1 == NewBlock(g, "WHILE CONDITION", "")
    IN  [ConnectBlocks(NewBlock(ConnectBlocks(g1, g.current_block, cond_block), "LOOP BODY", ""),
                       cond_block, body_block)
            EXCEPT !.current_block = body_block]

WhileEntered(g, node) ==
    LET cond_block == g.block_counter
        body_block == cond_block + 1
        g1 == NewBlock(g, "WHILE CONDITION", "")
    IN  IF IsAlwaysFalseCondition("while", node.condition)
        THEN [NewBlock(g1, "LOOP BODY", "") EXCEPT !.current_block = body_block]
        ELSE [ConnectBlocks(NewBlock(ConnectBlocks(g1, g.current_block, cond_block), "LOOP BODY", ""),
                            cond_block, body_block)
                 EXCEPT !.current_block = body_block]

ProcessWhile ==
    /\ AtStmt("WhileStatement")
    /\ Commit(WhileEntered(Gen, Top.stmt))
    /\ kont' = Pop \o <<[f |-> IF IsAlwaysFalseCondition("while", Top.stmt.condition)
                               THEN "while_never" ELSE "while_body",
                         node |-> Top.stmt, saved_block |-> current_block,
                         cond_block |-> block_counter, body_block |-> block_counter + 1,
                         flag |-> in_infinite_loop],
                        StmtFrame(Top.stmt.body)>>
    /\ UNCHANGED <<front, prog, method_map, log>>

\* the loop never runs: back to the saved block, which is connected to the exit
NeverRunsExit(g, saved_block, from) ==
    LET exit_block == g.block_counter
        g1 == NewBlock([g EXCEPT !.current_block = saved_block], "LOOP EXIT", "")
    IN  [ConnectBlocks(g1, from, exit_block) EXCEPT !.current_block = exit_block]

WhileNeverDone ==
    /\ Running /\ Top.f = "while_never"
    /\ Commit(NeverRunsExit(Gen, Top.saved_block, Top.saved_block))
    /\ log' = Append(log, LoopEvent("while", "never", Top.saved_block, None, Top.cond_block,
                                    Top.body_block, block_counter, Top.flag))
    /\ kont' = Pop
    /\ UNCHANGED <<front, prog, method_map>>

WhileBodyDone(g, node, cond_block, body_block) ==
    LoopExit(ConnectBlocks(g, body_block, cond_block), cond_block, WhileIsInfinite(node))

WhileAfterBody ==
    /\ Running /\ Top.f = "while_body"
    /\ Commit(WhileBodyDone(Gen, Top.node, Top.cond_block, Top.body_block))
    /\ log' = Append(log, LoopEvent("while",
                                    IF WhileIsInfinite(Top.node) THEN "infinite" ELSE "finite",
                                    Top.saved_block, None, Top.cond_block, Top.body_block,
                                    IF WhileIsInfinite(Top.node) THEN None ELSE block_counter,
                                    Top.flag))
    /\ kont' = Pop
    /\ UNCHANGED <<front, prog, method_map>>

(***************************************************************************)
(* _process_do_statement                                                   *)
(***************************************************************************)
DoIsInfinite(node) ==
    \/ AnalyzeLoopTermination("do", node.condition, node.body).is_infinite
    \/ IsInfiniteLoopCondition("do", node.condition)

DoEntered(g, node) ==
    LET body_block == g.block_counter
        g1 == ConnectBlocks(NewBlock(g, "DO-WHILE BODY", ""), g.current_block, body_block)
    IN  IF IsAlwaysFalseCondition("do", node.condition)
        THEN [NewBlock(g1, "DO-WHILE CONDITION", "") EXCEPT !.current_block = body_block]
        ELSE [g1 EXCEPT !.current_block = body_block]

ProcessDo ==
    /\ AtStmt("DoStatement")
    /\ Commit(DoEntered(Gen, Top.stmt))
    /\ kont' = Pop \o <<[f |-> IF IsAlwaysFalseCondition("do", Top.stmt.condition)
                               THEN "do_never" ELSE "do_body",
                         node |-> Top.stmt, saved_block |-> current_block,
                         body_block |-> block_counter, cond_block |-> block_counter + 1,
                         flag |-> in_infinite_loop],
                        StmtFrame(Top.stmt.body)>>
    /\ UNCHANGED <<front, prog, method_map, log>>

DoNeverExit(g, saved_block, body_block, cond_block) ==
    LET g1 == ConnectBlocks([g EXCEPT !.current_block = saved_block], body_block, cond_block)
    IN  NeverRunsExit(g1, saved_block, cond_block)

DoNeverDone ==
    /\ Running /\ Top.f = "do_never"
    /\ Commit(DoNeverExit(Gen, Top.saved_block, Top.body_block, Top.cond_block))
    /\ log' = Append(log, LoopEvent("do", "never", Top.saved_block, None, Top.cond_block,
                                    Top.body_block, block_counter, Top.flag))
    /\ kont' = Pop
    /\ UNCHANGED <<front, prog, method_map>>

DoBodyDone(g, node, body_block) ==
    LET cond_block == g.block_counter
        g1 == ConnectBlocks(NewBlock(g, "DO-WHILE CONDITION", ""), body_block, cond_block)
    IN  LoopExit(ConnectBlocks(g1, cond_block, body_block), cond_block, DoIsInfinite(node))

DoAfterBody ==
    /\ Running /\ Top.f = "do_body"
    /\ Commit(DoBodyDone(Gen, Top.node, Top.body_block))
    /\ log' = Append(log, LoopEvent("do",
                                    IF DoIsInfinite(Top.node) THEN "infinite" ELSE "finite",
                                    Top.saved_block, None, block_counter, Top.body_block,
                                    IF DoIsInfinite(Top.node) THEN None ELSE block_counter + 1,
                                    Top.flag))
    /\ kont' = Pop
    /\ UNCHANGED <<front, prog, method_map>>

(***************************************************************************)
(* _process_for_statement                                                  *)
(***************************************************************************)
IsForeach(node) == node.control = "EnhancedForControl"
HasCondition(node) == ~IsForeach(node) /\ node.condition.t # "None"
HasUpdate(node) == ~IsForeach(node) /\ node.update # <<>>

\* lines 518-550: the direction an update expression records
UpdateDirection(u, dirs) ==
    IF u.t = "MemberReference" THEN OperatorDirection(u, dirs)
    ELSE IF u.t = "Assignment" THEN CompoundDirection(u, dirs)
    ELSE dirs

\* lines 551-610 for one update expression: "none" when the loop over the
\* update clause goes on, else the verdict it breaks with
UpdateVerdict(c, u, dirs) ==
    LET hit == ExtractVariablesFromExpression(c) \cap ExtractModifiedVariables(u)
        modified_var == CHOOSE v \in hit : TRUE
        mod_dir == DirOf(dirs, modified_var)
        op == c.operator
        lhs == c.operandl.t = "MemberReference" /\ c.operandl.member = modified_var
        rhs == c.operandr.t = "MemberReference" /\ c.operandr.member = modified_var
    IN  IF hit = {} THEN "none"
        ELSE IF c.t # "BinaryOperation" THEN "finite"
        ELSE IF lhs /\ op \in {">", ">="} /\ mod_dir = "increment" THEN "infinite"
        ELSE IF lhs /\ op \in {">", ">="} /\ mod_dir = "decrement" THEN "finite"
        ELSE IF lhs /\ op \in {"<", "<="} /\ mod_dir = "decrement" THEN "infinite"
        ELSE IF lhs /\ op \in {"<", "<="} /\ mod_dir = "increment" THEN "finite"
        ELSE IF rhs /\ op = ">" /\ mod_dir = "decrement" THEN "infinite"
        ELSE IF rhs /\ op = ">" /\ mod_dir = "increment" THEN "finite"
        ELSE IF rhs /\ op = "<" /\ mod_dir = "increment" THEN "infinite"
        ELSE IF rhs /\ op = "<" /\ mod_dir = "decrement" THEN "finite"
        ELSE "none"

\* the loop over for_node.control.update, from the i-th expression on
RECURSIVE UpdateClauseVerdict(_, _, _, _, _)
UpdateClauseVerdict(c, us, i, dirs, is_infinite) ==
    IF i > Len(us) THEN is_infinite
    ELSE LET d == UpdateDirection(us[i], dirs)
             v == UpdateVerdict(c, us[i], d)
         IN  IF v = "none" THEN UpdateClauseVerdict(c, us, i + 1, d, is_infinite)
             ELSE v = "infinite"

ForIsInfinite(node) ==
    IF IsForeach(node) THEN FALSE
    ELSE IF ~HasCondition(node) THEN TRUE
    ELSE LET body == AnalyzeLoopTermination("for", node.condition, node.body).is_infinite
             upd == IF HasUpdate(node)
                    THEN UpdateClauseVerdict(node.condition, node.update, 1, EmptyDirs, body)
                    ELSE body
         IN  upd \/ IsInfiniteLoopCondition("for", node.condition)

ForNeverRuns(node) == HasCondition(node) /\ IsAlwaysFalseCondition("for", node.condition)

ForEntered(g, node) ==
    LET init_block == g.block_counter
        cond_block == init_block + 1
        body_block == init_block + 2
        g1 == ConnectBlocks(NewBlock(g, "FOR INIT", ""), g.current_block, init_block)
        g2 == ConnectBlocks(NewBlock(g1, "FOR CONDITION", ""), init_block, cond_block)
        g3 == NewBlock(g2, "LOOP BODY", "")
    IN  IF ForNeverRuns(node)
        THEN [g3 EXCEPT !.current_block = body_block]
        ELSE [ConnectBlocks(g3, cond_block, body_block) EXCEPT !.current_block = body_block]

ProcessFor ==
    /\ AtStmt("ForStatement")
    /\ Commit(ForEntered(Gen, Top.stmt))
    /\ kont' = Pop \o <<[f |-> IF ForNeverRuns(Top.stmt) THEN "for_never" ELSE "for_body",
                         node |-> Top.stmt, saved_block |-> current_block,
                         init_block |-> block_counter, cond_block |-> block_counter + 1,
                         body_block |-> block_counter + 2, flag |-> in_infinite_loop],
                        StmtFrame(Top.stmt.body)>>
    /\ UNCHANGED <<front, prog, method_map, log>>

ForNeverDone ==
    /\ Running /\ Top.f = "for_never"
    /\ Commit(NeverRunsExit(Gen, Top.saved_block, Top.init_block))
    /\ log' = Append(log, LoopEvent("for", "never", Top.saved_block, Top.init_block,
                                    Top.cond_block, Top.body_block, block_counter, Top.flag))
    /\ kont' = Pop
    /\ UNCHANGED <<front, prog, method_map>>

RECURSIVE AddStatementsToBlock(_, _)
AddStatementsToBlock(g, ss) ==
    IF ss = <<>> THEN g
    ELSE AddStatementsToBlock(AddStatementToBlock(g, Head(ss)), Tail(ss))

\* lines 488-498: the update block, or the plain loop-back edge
ForLoopBack(g, node, cond_block, body_block) ==
    LET update_block == g.block_counter
        g1 == ConnectBlocks(NewBlock(g, "FOR UPDATE", ""), body_block, update_block)
        g2 == AddStatementsToBlock([g1 EXCEPT !.current_block = update_block], node.update)
    IN  IF HasUpdate(node)
        THEN ConnectBlocks(g2, update_block, cond_block)
        ELSE ConnectBlocks(g, body_block, cond_block)

ForBodyDone(g, node, cond_block, body_block) ==
    LoopExit(ForLoopBack(g, node, cond_block, body_block), cond_block, ForIsInfinite(node))

ForAfterBody ==
    /\ Running /\ Top.f = "for_body"
    /\ Commit(ForBodyDone(Gen, Top.node, Top.cond_block, Top.body_block))
    /\ log' = Append(log, LoopEvent(IF IsForeach(Top.node) THEN "foreach" ELSE "for",
                                    IF ForIsInfinite(Top.node) THEN "infinite" ELSE "finite",
                                    Top.saved_block, Top.init_block, Top.cond_block, Top.body_block,
                                    IF ForIsInfinite(Top.node) THEN None
                                    ELSE IF HasUpdate(Top.node) THEN block_counter + 1
                                    ELSE block_counter,
                                    Top.flag))
    /\ kont' = Pop
    /\ UNCHANGED <<front, prog, method_map>>

(***************************************************************************)
(* _process_switch_statement                                               *)
(***************************************************************************)
SwitchEntered(g) ==
    LET switch_block == g.block_counter
    IN  NewBlock(ConnectBlocks(NewBlock(g, "SWITCH EXPRESSION", ""), g.current_block, switch_block),
                 "SWITCH MERGE", "")

ProcessSwitch ==
    /\ AtStmt("SwitchStatement")
    /\ Commit(SwitchEntered(Gen))
    /\ kont' = Pop \o <<[f |-> "switch", node |-> Top.stmt, switch_block |-> block_counter,
                         merge_block |-> block_counter + 1, i |-> 1,
                         case_blocks |-> EmptyMap, ends |-> EmptyMap]>>
    /\ UNCHANGED <<front, prog, method_map, log>>

NumCases(fr) == Len(fr.node.cases)

\* lines 769-791: what a case without break is connected to.  The label
\* block of case i + 1 is looked up before it has been created.
FallThrough(g, fr, i, end_block) ==
    LET next_case_block == Get(fr.case_blocks, i + 1)
    IN  IF i < NumCases(fr)
        THEN IF next_case_block # None THEN ConnectBlocks(g, end_block, next_case_block) ELSE g
        ELSE ConnectBlocks(g, end_block, fr.merge_block)

CaseEvent(fr, i, label_block, end_block, has_break, empty) ==
    [e |-> "case", switch_block |-> fr.switch_block, merge_block |-> fr.merge_block,
     index |-> i, ncases |-> NumCases(fr), label_block |-> label_block,
     end_block |-> end_block, has_break |-> has_break, empty |-> empty]

\* the head of the loop over the cases: the label block, and the whole of
\* an empty case
CaseEntered(g, fr) ==
    LET case_block == g.block_counter
        g1 == ConnectBlocks(NewBlock(g, "CASE", IF fr.node.cases[fr.i].default THEN "default" ELSE "case"),
                            fr.switch_block, case_block)
    IN  IF fr.node.cases[fr.i].statements # <<>>
        THEN [g1 EXCEPT !.current_block = case_block]
        ELSE FallThrough(g1, [fr EXCEPT !.case_blocks = Put(@, fr.i, case_block)], fr.i, case_block)

SwitchCase ==
    /\ Running /\ Top.f = "switch" /\ Top.i <= NumCases(Top)
    /\ Commit(CaseEntered(Gen, Top))
    /\ LET fr == [Top EXCEPT !.case_blocks = Put(@, Top.i, block_counter)]
       IN  IF Top.node.cases[Top.i].statements # <<>>
           THEN /\ kont' = Pop \o <<fr, [f |-> "case", j |-> 1, case_block |-> block_counter]>>
                /\ log' = log
           ELSE /\ kont' = Pop \o <<[fr EXCEPT !.i = @ + 1, !.ends = Put(@, Top.i, block_counter)]>>
                /\ log' = Append(log, CaseEvent(Top, Top.i, block_counter, block_counter, FALSE, TRUE))
    /\ UNCHANGED <<front, prog, method_map>>

\* the switch frame below the case frame on top
Outer == kont[Len(kont) - 1]
CaseStmts == Outer.node.cases[Outer.i].statements
Pop2 == SubSeq(kont, 1, Len(kont) - 2)
\* case_statements_end_blocks[i] = self.current_block after a statement
EndsNow == IF Top.j > 1 THEN Put(Outer.ends, Outer.i, current_block) ELSE Outer.ends

\* a statement of the case that is not a break
CaseStatement ==
    /\ Running /\ Top.f = "case" /\ Top.j <= Len(CaseStmts)
    /\ CaseStmts[Top.j].k # "BreakStatement"
    /\ kont' = Pop2 \o <<[Outer EXCEPT !.ends = EndsNow], [Top EXCEPT !.j = @ + 1],
                         StmtFrame(CaseStmts[Top.j])>>
    /\ UNCHANGED <<front, prog, cfg_nodes, cfg_edges, current_block, block_counter,
                   in_infinite_loop, call_stack, method_map, method_entries,
                   method_exits, node_method_map, log>>

CaseBroken(g, merge_block) ==
    LET break_block == g.block_counter
    IN  ConnectBlocks(ConnectBlocks(NewBlock(g, "BREAK", ""), g.current_block, break_block),
                      break_block, merge_block)

CaseBreak ==
    /\ Running /\ Top.f = "case" /\ Top.j <= Len(CaseStmts)
    /\ CaseStmts[Top.j].k = "BreakStatement"
    /\ Commit(CaseBroken(Gen, Outer.merge_block))
    /\ kont' = Pop2 \o <<[Outer EXCEPT !.i = @ + 1, !.ends = Put(@, Outer.i, block_counter)]>>
    /\ log' = Append(log, CaseEvent(Outer, Outer.i, Top.case_block, block_counter, TRUE, FALSE))
    /\ UNCHANGED <<front, prog, method_map>>

\* the statements of the case are exhausted without a break
CaseEnd ==
    /\ Running /\ Top.f = "case" /\ Top.j > Len(CaseStmts)
    /\ Commit(FallThrough(Gen, Outer, Outer.i, Get(EndsNow, Outer.i)))
    /\ kont' = Pop2 \o <<[Outer EXCEPT !.i = @ + 1, !.ends = EndsNow]>>
    /\ log' = Append(log, CaseEvent(Outer, Outer.i, Top.case_block, Get(EndsNow, Outer.i), FALSE, FALSE))
    /\ UNCHANGED <<front, prog, method_map>>

SwitchDone ==
    /\ Running /\ Top.f = "switch" /\ Top.i > NumCases(Top)
    /\ Commit([Gen EXCEPT !.current_block = Top.merge_block])
    /\ kont' = Pop
    /\ UNCHANGED <<front, prog, method_map, log>>

(***************************************************************************)
(* _process_method_invocation                                              *)
(***************************************************************************)
CallerMethod(g) ==
    IF g.call_stack # <<>> THEN g.call_stack[Len(g.call_stack)][1] ELSE "None"

\* lines 1191-1196: the call's line is appended to the caller's block
CallAnnotated(g, inv) == AppendLine(g, g.current_block, StatementLine(inv))

\* lines 1232-1251: the exits that are connected to the continuation block
ExitsToConnect(g, name) ==
    IF name \in DOMAIN g.method_exits THEN g.method_exits[name]
    ELSE ReachableExits(g, g.method_entries[name])

\* the continuation block created while the callee is still on the call
\* stack, so that it is attributed to the callee
LinkedAsCallee(g, name, caller_block, caller_method) ==
    LET method_entry == g.method_entries[name]
        g1 == ConnectBlocks(g, caller_block, method_entry)
        continuation_block == g1.block_counter
        g2 == NewBlock(g1, "BLOCK", "")
        g3 == [g2 EXCEPT !.node_method_map = Put(@, continuation_block, name)]
        exits == ExitsToConnect(g3, name)
        g4 == SetMethodIfAbsentAll(ConnectAll(g3, exits, continuation_block), exits, name)
        g5 == IF name \notin DOMAIN g.method_exits /\ exits # <<>>
              THEN [g4 EXCEPT !.method_exits = Put(@, name, exits)]
              ELSE g4
    IN  [g5 EXCEPT !.current_block = continuation_block]

\* lines 1210-1255, for a method that has an entry block
Linked(g, name, caller_block, caller_method) ==
    LET method_entry == g.method_entries[name]
        g1 == ConnectBlocks(g, caller_block, method_entry)
        continuation_block == g1.block_counter
        g2 == NewBlock(g1, "BLOCK", "")
        g3 == IF caller_method # "None"
              THEN [g2 EXCEPT !.node_method_map = Put(@, continuation_block, caller_method)]
              ELSE g2
        exits == ExitsToConnect(g3, name)
        g4 == SetMethodIfAbsentAll(ConnectAll(g3, exits, continuation_block), exits, name)
        g5 == IF name \notin DOMAIN g.method_exits /\ exits # <<>>
              THEN [g4 EXCEPT !.method_exits = Put(@, name, exits)]
              ELSE g4
    IN  [g5 EXCEPT !.current_block = continuation_block]

\* the method whose body is being translated: the key of the innermost
\* _process_method activation that has reached its body
EnclosingMethod ==
    LET active == {i \in 1..Len(kont) : kont[i].f = "method_end"}
    IN  kont[CHOOSE i \in active : \A j \in active : j <= i].key

CallEvent(g, name, caller_block, caller_method, lazy, flagBefore) ==
    [e |-> "call", name |-> name, caller_block |-> caller_block, in_method |-> EnclosingMethod,
     caller_method |-> caller_method, lazy |-> lazy, resolved |-> TRUE,
     entry |-> g.method_entries[name], continuation |-> g.block_counter,
     exits |-> ExitsToConnect(g, name),
     suppressed |-> g.in_infinite_loop /\ IsLoopConditionTag(TagOf(g, caller_block))
                      /\ caller_block # g.method_entries[name],
     flag_before |-> flagBefore, flag_at_link |-> g.in_infinite_loop]

AtCall == Running /\ Top.f = "stmt" /\ IsInvocation(Top.stmt)
Callee == Top.stmt.expression.member
NeedsLazyBuild(name) == name \in DOMAIN method_map /\ name \notin DOMAIN method_entries

\* an unresolved call that opens a continuation block all the same
CallUnresolvedContinued ==
    /\ AtCall
    /\ ~NeedsLazyBuild(Callee) /\ Callee \notin DOMAIN method_entries
    /\ LET g == CallAnnotated(Gen, Top.stmt.expression)
           continuation_block == g.block_counter
       IN  Commit([ConnectBlocks(NewBlock(g, "BLOCK", ""), g.current_block, continuation_block)
                      EXCEPT !.current_block = continuation_block])
    /\ log' = Append(log, [e |-> "call", name |-> Callee, caller_block |-> current_block,
                           in_method |-> EnclosingMethod, caller_method |-> CallerMethod(Gen),
                           lazy |-> FALSE, resolved |-> FALSE])
    /\ kont' = Pop
    /\ UNCHANGED <<front, prog, method_map>>

\* the callee has no entry block and none can be built: only the line is added
CallUnresolved ==
    /\ AtCall
    /\ ~NeedsLazyBuild(Callee) /\ Callee \notin DOMAIN method_entries
    /\ Commit(CallAnnotated(Gen, Top.stmt.expression))
    /\ log' = Append(log, [e |-> "call", name |-> Callee, caller_block |-> current_block,
                           in_method |-> EnclosingMethod, caller_method |-> CallerMethod(Gen), lazy |-> FALSE,
                           resolved |-> FALSE])
    /\ kont' = Pop
    /\ UNCHANGED <<front, prog, method_map>>

\* the callee has been processed already (or is being processed)
CallBuilt ==
    /\ AtCall
    /\ Callee \in DOMAIN method_entries
    /\ LET g == CallAnnotated(Gen, Top.stmt.expression)
       IN  /\ Commit(Linked(g, Callee, current_block, CallerMethod(Gen)))
           /\ log' = Append(log, CallEvent(g, Callee, current_block, CallerMethod(Gen), FALSE,
                                           in_infinite_loop))
    /\ kont' = Pop
    /\ UNCHANGED <<front, prog, method_map>>

\* lazy processing: up to the call self._process_method(self.method_map[name])
CallLazy ==
    /\ AtCall
    /\ NeedsLazyBuild(Callee)
    /\ Commit(CallAnnotated(Gen, Top.stmt.expression))
    /\ kont' = Pop \o <<[f |-> "call_resume", name |-> Callee, caller_block |-> current_block,
                         caller_method |-> CallerMethod(Gen), saved_block |-> current_block,
                         flag |-> in_infinite_loop, stack |-> call_stack],
                        [f |-> "method", decl |-> prog[method_map[Callee]]]>>
    /\ UNCHANGED <<front, prog, method_map, log>>

\* after the lazy _process_method: restore the caller's block and link
Resumed(g, name, caller_block, caller_method, saved_block) ==
    LET g1 == [g EXCEPT !.current_block = saved_block]
    IN  IF name \in DOMAIN g1.method_entries
        THEN Linked(g1, name, caller_block, caller_method)
        ELSE g1

CallResume ==
    /\ Running /\ Top.f = "call_resume"
    /\ Commit(Resumed(Gen, Top.name, Top.caller_block, Top.caller_method, Top.saved_block))
    /\ log' = Append(log, CallEvent(Gen, Top.name, Top.caller_block, Top.caller_method, TRUE,
                                    Top.flag))
    /\ kont' = Pop
    /\ UNCHANGED <<front, prog, method_map>>

Next ==
    \/ ProcessTree
    \/ NextMethod
    \/ ProcessMethod
    \/ MethodEnd
    \/ ProcessBlock
    \/ ProcessBlockStatement
    \/ ProcessReturn
    \/ ProcessPlainStatement
    \/ ProcessIf
    \/ IfAfterThen
    \/ IfAfterElse
    \/ ProcessWhile
    \/ WhileNeverDone
    \/ WhileAfterBody
    \/ ProcessDo
    \/ DoNeverDone
    \/ DoAfterBody
    \/ ProcessFor
    \/ ForNeverDone
    \/ ForAfterBody
    \/ ProcessSwitch
    \/ SwitchCase
    \/ CaseStatement
    \/ CaseBreak
    \/ CaseEnd
    \/ SwitchDone
    \/ CallUnresolved
    \/ CallBuilt
    \/ CallLazy
    \/ CallResume

(***************************************************************************)
(* The inputs: parsed trees generate() is run on                           *)
(***************************************************************************)
SeqsUpTo(S, n) == UNION {[1..k -> S] : k \in 0..n}

X == LocalVariableDeclaration
Inc(v) == StatementExpression(Postfix(v, "++"))
Dec(v) == StatementExpression(Postfix(v, "--"))
PreInc(v) == StatementExpression(Prefix(v, "++"))
PreDec(v) == StatementExpression(Prefix(v, "--"))
Assign(v, ty, e) == StatementExpression(Assignment(v, ty, e))
Block(ss) == BlockStatement(ss)

CondTrue == Literal("true")
CondFalse == Literal("false")
\* a condition without variables: classified finite
CondCall == MethodInvocation("hasNext")
Var(v) == MemberReference(v)

Loop(kind, c, ss) ==
    CASE kind = "while" -> WhileStatement(c, Block(ss))
      [] kind = "do" -> DoStatement(c, Block(ss))
      [] kind = "for" -> ForStatement("ForControl", c, <<>>, Block(ss))
      [] OTHER -> ForStatement("EnhancedForControl", NoExpr, <<>>, Block(ss))

LoopKinds == {"while", "do", "for"}
CmpOps == {"<", "<=", ">", ">=", "==", "!="}
Lits == 0..MaxLit

\* --- loops that exercise the termination analysis ----------------------
VarConds ==
    {BinaryOperation(op, Var("i"), NumLit(MaxLit)) : op \in CmpOps}
      \cup {BinaryOperation(op, NumLit(0), Var("i")) : op \in CmpOps}
      \cup {Var("i"), CondCall, BinaryOperation("<", Var("i"), Var("n"))}

LitConds ==
    {BinaryOperation(op, NumLit(a), NumLit(b)) : op \in CmpOps, a \in Lits, b \in Lits}
      \cup {Literal(v) : v \in {"true", "false", "0", "1", "2"}}
      \cup {BinaryOperation("==", CondTrue, CondTrue), BinaryOperation("!=", CondTrue, CondFalse),
            BinaryOperation("==", CondFalse, CondTrue), BinaryOperation("<", CondTrue, NumLit(1))}

One == NumLit(1)
Writes ==
    {<<Inc("i")>>, <<Dec("i")>>, <<PreInc("i")>>, <<PreDec("i")>>,
     <<Assign("i", "=", BinaryOperation("+", Var("i"), One))>>,
     <<Assign("i", "=", BinaryOperation("-", Var("i"), One))>>,
     <<Assign("i", "=", BinaryOperation("+", One, Var("i")))>>,
     <<Assign("i", "=", BinaryOperation("*", Var("i"), One))>>,
     <<Assign("i", "+=", One)>>, <<Assign("i", "-=", One)>>, <<Assign("i", "=", One)>>,
     <<Inc("j")>>, <<X>>, <<>>,
     <<Inc("i"), Dec("i")>>, <<Dec("i"), Inc("i")>>,
     <<Block(<<Inc("i")>>)>>,
     <<IfStatement(CondCall, Block(<<Inc("i")>>), NoStmt)>>,
     <<WhileStatement(CondCall, Block(<<Dec("i")>>))>>}

Updates ==
    {<<>>, <<Postfix("i", "++")>>, <<Postfix("i", "--")>>, <<Prefix("i", "++")>>,
     <<Prefix("i", "--")>>, <<Assignment("i", "+=", One)>>, <<Assignment("i", "-=", One)>>,
     <<Postfix("j", "++"), Postfix("i", "++")>>, <<Postfix("j", "++")>>}

ForBodies == {<<X>>, <<Inc("i")>>, <<Dec("i")>>, <<WhileStatement(CondTrue, Block(<<>>))>>}

AnalysisLoops ==
    {Loop(k, c, w) : k \in {"while", "do"}, c \in VarConds, w \in Writes}
      \cup {WhileStatement(c, w[1]) : c \in VarConds, w \in {v \in Writes : Len(v) = 1}}
      \cup {Loop(k, c, w) : k \in LoopKinds, c \in LitConds, w \in {<<>>, <<X>>}}
      \cup {ForStatement("ForControl", c, u, Block(b)) : c \in VarConds, u \in Updates, b \in ForBodies}
      \cup {ForStatement("ForControl", NoExpr, u, Block(<<X>>)) : u \in {<<>>, <<Postfix("i", "++")>>}}

Main(ss) == MethodDeclaration("A", "main", TRUE, ss)

AnalysisPrograms == {<<Main(<<l, X>>)>> : l \in AnalysisLoops}

\* --- programs that exercise the shape of the graph ---------------------
CallG == Call("g")
CallExt == Call("println")
Ret == ReturnStatement
Brk == BreakStatement
WInf == WhileStatement(CondTrue, Block(<<>>))
WNever == WhileStatement(CondFalse, Block(<<X>>))

ShapeConds == {CondTrue, CondFalse, CondCall}
PlainBodies == SeqsUpTo({CallG, Ret}, MaxBody)
ShortBodies == {<<X>>, <<CallG>>, <<Ret>>}

Flat ==
    {IfStatement(CondCall, Block(b), NoStmt) : b \in PlainBodies}
      \cup {IfStatement(CondCall, Block(b), Block(c)) : b \in PlainBodies, c \in ShortBodies}
      \cup {IfStatement(CondCall, b[1], c[1]) : b \in ShortBodies, c \in ShortBodies}
      \cup {Loop(k, c, b) : k \in LoopKinds, c \in ShapeConds, b \in PlainBodies}
      \cup {Loop("foreach", NoExpr, b) : b \in PlainBodies}
      \cup {ForStatement("ForControl", NoExpr, <<>>, Block(b)) : b \in ShortBodies}
      \cup {ForStatement("ForControl", CondCall, <<Postfix("i", "++")>>, Block(b)) : b \in ShortBodies}

CaseBodies ==
    {<<>>, <<X>>, <<Brk>>, <<X, Brk>>, <<Ret>>, <<WInf, CallG>>, <<WInf, WNever>>,
     <<CallExt>>}
Switches ==
    {SwitchStatement([i \in 1..Len(cs) |-> SwitchStatementCase(i = Len(cs), cs[i])]) :
        cs \in SeqsUpTo(CaseBodies, MaxCases)}

\* constructs placed inside another construct
Inner ==
    {WInf, WNever, Loop("while", CondCall, <<X>>), Loop("do", CondTrue, <<>>),
     Loop("do", CondFalse, <<X>>), Loop("do", CondCall, <<Brk>>),
     ForStatement("ForControl", NoExpr, <<>>, Block(<<>>)),
     Loop("for", CondFalse, <<X>>),
     IfStatement(CondCall, Block(<<Ret>>), NoStmt),
     IfStatement(CondCall, Block(<<X>>), Block(<<CallG>>)),
     SwitchStatement(<<SwitchStatementCase(FALSE, <<X>>), SwitchStatementCase(TRUE, <<Brk>>)>>)}
InnerBodies == {<<s>> : s \in Inner} \cup {<<s, CallG>> : s \in Inner}

Nested ==
    {IfStatement(CondCall, Block(b), NoStmt) : b \in InnerBodies}
      \cup {IfStatement(CondCall, Block(b), Block(<<X>>)) : b \in InnerBodies}
      \cup {IfStatement(CondCall, Block(<<X>>), Block(b)) : b \in InnerBodies}
      \cup {IfStatement(CondCall, s, CallG) : s \in Inner}
      \cup {Loop(k, c, b) : k \in LoopKinds, c \in ShapeConds, b \in InnerBodies}
      \cup {SwitchStatement(<<SwitchStatementCase(FALSE, b), SwitchStatementCase(TRUE, <<X>>)>>) :
              b \in InnerBodies}

TopStatements == Flat \cup Switches \cup Nested \cup {X, Ret, CallG, CallExt}

\* the callee: one exit, two exits, ending in a return, never returning,
\* recursive, mutually recursive, without body
EarlyCalleeBodies ==
    {<<X>>, <<Ret>>, <<IfStatement(CondCall, Block(<<Ret>>), NoStmt), X>>, <<WInf>>}
LateCalleeBodies == EarlyCalleeBodies \cup {<<CallG, X>>, <<Call("main")>>}
CalleeDecl(b) == MethodDeclaration("A", "g", TRUE, b)
Abstract == MethodDeclaration("A", "g", FALSE, <<>>)

Tails == {<<>>, <<CallG>>}

\* the callee declared after its caller (built lazily at the first call) or
\* before it
ShapePrograms ==
    {<<Main(<<s>> \o t), CalleeDecl(b)>> : s \in TopStatements, t \in Tails, b \in LateCalleeBodies}
      \cup {<<Main(<<s>> \o t), Abstract>> : s \in TopStatements, t \in Tails}
      \cup {<<CalleeDecl(b), Main(<<s>> \o t)>> : s \in TopStatements, t \in Tails, b \in EarlyCalleeBodies}

\* --- two classes declaring a method of the same simple name --------------
GOf(c, b) == MethodDeclaration(c, "g", TRUE, b)
SameNamePrograms ==
    {<<Main(<<CallG>>), GOf("B", <<X>>), GOf("C", <<Ret>>)>>,
     <<GOf("B", <<X>>), GOf("C", <<Ret>>), Main(<<CallG>>)>>,
     <<GOf("B", <<X>>), Main(<<CallG, CallG>>), GOf("C", <<Ret>>)>>,
     <<Main(<<CallG>>), GOf("B", <<CallG>>), GOf("C", <<X>>)>>}

\* --- loops left by a break ------------------------------------------------
BreakBodies == {<<Brk>>, <<X, Brk>>}
BreakPrograms ==
    {<<Main(<<Loop(k, c, b), X>>)>> : k \in LoopKinds, c \in {CondTrue, CondCall}, b \in BreakBodies}

Programs == AnalysisPrograms \cup ShapePrograms \cup SameNamePrograms \cup BreakPrograms

Init ==
    /\ prog \in Programs
    /\ kont = <<[f |-> "generate"]>>
    /\ cfg_nodes = <<>>
    /\ cfg_edges = {}
    /\ current_block = None
    /\ block_counter = 0
    /\ in_infinite_loop = FALSE
    /\ call_stack = <<>>
    /\ method_map = EmptyMap
    /\ method_entries = EmptyMap
    /\ method_exits = EmptyMap
    /\ node_method_map = EmptyMap
    /\ log = <<>>
    /\ java_code = NoText
    /\ line_map = EmptyMap
    /\ pc = "process_tree"
    /\ parses = <<>>
    /\ result = None

Spec == Init /\ [][Next]_vars

(***************************************************************************)
(* generate: the parse of the text, and the retry on the wrapped text      *)
(*                                                                         *)
(* A text is its lines, the keywords its stripped form starts with, and    *)
(* what javalang.parse.parse makes of it and of its wrapped form           *)
(* "public class nan {\n<text>\n}": a tree, a JavaSyntaxError (with the    *)
(* line of `at', None when `at' is missing, and whether the description    *)
(* names an expected declaration), or a LexerError.                        *)
(***************************************************************************)
Line(i, t) == [indent |-> i, text |-> t]
\* str.strip() of a line
Strip(line) == line.text

Parsed(tree) == [ok |-> TRUE, tree |-> tree]
JavaSyntaxError(at, decl) ==
    [ok |-> FALSE, syntax |-> TRUE, at |-> at, type_declaration |-> decl]
LexerError == [ok |-> FALSE, syntax |-> FALSE]

Text(hd, ls, asis, wr) == [head |-> hd, lines |-> ls, as_is |-> asis, wrapped |-> wr]

\* error_line and the test of lines 36-50
ErrorLine(err) == IF err.at = None THEN 1 ELSE err.at
WrapsAtTypeDeclaration(err) == ErrorLine(err) = 1 /\ err.type_declaration

\* _build_line_map
BuildLineMap(ls) == [i \in 1..Len(ls) |-> Strip(ls[i])]

\* the prefixes tested at lines 63-64
StartsWithClass(text) ==
    text.head \in {"class", "public class", "private class", "protected class"}

\* lines 27-50: the parse of the text as given
GenerateParse ==
    /\ pc = "generate"
    /\ parses' = Append(parses, "original")
    /\ IF java_code.as_is.ok
       THEN /\ prog' = java_code.as_is.tree
            /\ line_map' = BuildLineMap(java_code.lines)
            /\ pc' = "process_tree"
       ELSE /\ UNCHANGED <<prog, line_map>>
            /\ pc' = IF ~java_code.as_is.syntax THEN "raised"
                     ELSE IF WrapsAtTypeDeclaration(java_code.as_is)
                     THEN "wrap_type_declaration"
                     ELSE "wrap_other"
    /\ UNCHANGED <<java_code, result, kont, cfg_nodes, cfg_edges, current_block,
                   block_counter, in_infinite_loop, call_stack, method_map,
                   method_entries, method_exits, node_method_map, log>>

\* the wrapped text is parsed; the line map is built from the text as given
ParseWrapped ==
    /\ parses' = Append(parses, "wrapped")
    /\ IF java_code.wrapped.ok
       THEN /\ prog' = java_code.wrapped.tree
            /\ line_map' = BuildLineMap(java_code.lines)
            /\ pc' = "process_tree"
       ELSE /\ UNCHANGED <<prog, line_map>>
            /\ pc' = "raised"

\* lines 50-58
GenerateWrapAtTypeDeclaration ==
    /\ pc = "wrap_type_declaration"
    /\ ParseWrapped
    /\ UNCHANGED <<java_code, result, kont, cfg_nodes, cfg_edges, current_block,
                   block_counter, in_infinite_loop, call_stack, method_map,
                   method_entries, method_exits, node_method_map, log>>

\* lines 60-74, with a return in the place of the raise of line 74
GenerateWrapOtherReturning ==
    /\ pc = "wrap_other"
    /\ IF ~StartsWithClass(java_code)
       THEN ParseWrapped
       ELSE /\ pc' = "returned"
            /\ UNCHANGED <<prog, line_map, parses>>
    /\ UNCHANGED <<java_code, result, kont, cfg_nodes, cfg_edges, current_block,
                   block_counter, in_infinite_loop, call_stack, method_map,
                   method_entries, method_exits, node_method_map, log>>

\* lines 60-74
GenerateWrapOther ==
    /\ pc = "wrap_other"
    /\ IF ~StartsWithClass(java_code)
       THEN ParseWrapped
       ELSE /\ pc' = "raised"
            /\ UNCHANGED <<prog, line_map, parses>>
    /\ UNCHANGED <<java_code, result, kont, cfg_nodes, cfg_edges, current_block,
                   block_counter, in_infinite_loop, call_stack, method_map,
                   method_entries, method_exits, node_method_map, log>>

\* return self.cfg, once _process_tree has returned
GenerateReturn ==
    /\ pc = "process_tree" /\ kont = <<>>
    /\ pc' = "returned"
    /\ UNCHANGED <<java_code, line_map, parses, result, prog, kont, cfg_nodes,
                   cfg_edges, current_block, block_counter, in_infinite_loop,
                   call_stack, method_map, method_entries, method_exits,
                   node_method_map, log>>

GenerateNext ==
    \/ GenerateParse
    \/ GenerateWrapAtTypeDeclaration
    \/ GenerateWrapOther
    \/ GenerateReturn
    \/ Next

\* --- the texts ---------------------------------------------------------
\* node.position.line
At(n, node) == [line |-> n] @@ node
CallAt(n, m) == At(n, StatementExpression(At(n, MethodInvocation(m))))

\* members of a class, one statement per line; the conditions are literals
\* and calls, which are classified from the tree alone
CallsLines ==
    <<Line(2, "void main() {"), Line(4, "int x;"), Line(4, "g();"),
      Line(4, "println();"), Line(4, "return;"), Line(2, "}"),
      Line(2, "void g() {"), Line(4, "g();"), Line(4, "h();"), Line(2, "}"),
      Line(2, "void h() {"), Line(4, "main();"), Line(2, "}")>>
\* the tree of these members when `off' lines precede them in the parsed text
CallsTree(c, off) ==
    <<MethodDeclaration(c, "main", TRUE,
         <<At(off + 2, X), CallAt(off + 3, "g"), CallAt(off + 4, "println"),
           At(off + 5, Ret)>>),
      MethodDeclaration(c, "g", TRUE, <<CallAt(off + 8, "g"), CallAt(off + 9, "h")>>),
      MethodDeclaration(c, "h", TRUE, <<CallAt(off + 12, "main")>>)>>

BranchLines ==
    <<Line(2, "void main() {"), Line(4, "if (hasNext()) {"), Line(6, "int a;"),
      Line(4, "} else {"), Line(6, "int b;"), Line(4, "}"),
      Line(4, "switch (k) {"), Line(6, "case 1:"), Line(8, "int m;"),
      Line(8, "break;"), Line(6, "default:"), Line(8, "int n;"), Line(4, "}"),
      Line(2, "}")>>
BranchTree(c, off) ==
    <<MethodDeclaration(c, "main", TRUE,
         <<IfStatement(CondCall, Block(<<At(off + 3, X)>>), Block(<<At(off + 5, X)>>)),
           SwitchStatement(<<SwitchStatementCase(FALSE, <<At(off + 9, X), At(off + 10, Brk)>>),
                             SwitchStatementCase(TRUE, <<At(off + 12, X)>>)>>)>>)>>

LoopLines ==
    <<Line(2, "void main() {"),
      Line(4, "while (false) {"), Line(6, "int c;"), Line(4, "}"),
      Line(4, "while (hasNext()) {"), Line(6, "int d;"), Line(4, "}"),
      Line(4, "do {"), Line(6, "int e;"), Line(4, "} while (false);"),
      Line(4, "do {"), Line(6, "int f;"), Line(4, "} while (hasNext());"),
      Line(4, "for (; false; ) {"), Line(6, "int g;"), Line(4, "}"),
      Line(4, "for (; hasNext(); i++) {"), Line(6, "int h;"), Line(4, "}"),
      Line(2, "}")>>
LoopTree(c, off) ==
    <<MethodDeclaration(c, "main", TRUE,
         <<WhileStatement(CondFalse, Block(<<At(off + 3, X)>>)),
           WhileStatement(CondCall, Block(<<At(off + 6, X)>>)),
           DoStatement(CondFalse, Block(<<At(off + 9, X)>>)),
           DoStatement(CondCall, Block(<<At(off + 12, X)>>)),
           ForStatement("ForControl", CondFalse, <<>>, Block(<<At(off + 15, X)>>)),
           ForStatement("ForControl", CondCall, <<At(off + 17, Postfix("i", "++"))>>,
                        Block(<<At(off + 18, X)>>))>>)>>

Members ==
    {[lines |-> CallsLines, tree |-> [off \in 0..2 |-> CallsTree("nan", off)],
      in_class |-> [off \in 0..2 |-> CallsTree("A", off)]],
     [lines |-> BranchLines, tree |-> [off \in 0..2 |-> BranchTree("nan", off)],
      in_class |-> [off \in 0..2 |-> BranchTree("A", off)]],
     [lines |-> LoopLines, tree |-> [off \in 0..2 |-> LoopTree("nan", off)],
      in_class |-> [off \in 0..2 |-> LoopTree("A", off)]]}

Unindented(ls) == [i \in 1..Len(ls) |-> Line(ls[i].indent - 2, ls[i].text)]
Broken(ls) == ls \o <<Line(0, "int x = ;")>>

\* what the parser says of a text that parses in no form
Unparsed ==
    {JavaSyntaxError(at, decl) : at \in {None, 1, 2}, decl \in BOOLEAN} \cup {LexerError}

\* a class as it stands; the same after an import; the bare members, which
\* parse once wrapped; the bare members after a blank line; and texts that
\* parse in no form
GenerateTexts ==
    UNION {
      {Text("class", <<Line(0, "class A {")>> \o m.lines \o <<Line(0, "}")>>,
            Parsed(m.in_class[1]), Parsed(m.in_class[2])),
       Text("import", <<Line(0, "import java.util.List;"), Line(0, "class A {")>>
                         \o m.lines \o <<Line(0, "}")>>,
            Parsed(m.in_class[2]), JavaSyntaxError(2, FALSE)),
       Text("void", Unindented(m.lines),
            JavaSyntaxError(1, TRUE), Parsed(m.tree[1])),
       Text("void", Unindented(m.lines),
            JavaSyntaxError(None, TRUE), Parsed(m.tree[1])),
       Text("void", <<Line(0, "")>> \o Unindented(m.lines),
            JavaSyntaxError(2, TRUE), Parsed(m.tree[2]))}
        : m \in Members}
      \cup {Text(hd, Broken(Unindented(CallsLines)), e, JavaSyntaxError(15, FALSE)) :
              hd \in {"void", "class", "abstract class"}, e \in Unparsed}

InitGenerate ==
    /\ java_code \in GenerateTexts
    /\ pc = "generate"
    /\ parses = <<>>
    /\ line_map = EmptyMap
    /\ result = None
    /\ prog = <<>>
    /\ kont = <<[f |-> "generate"]>>
    /\ cfg_nodes = <<>>
    /\ cfg_edges = {}
    /\ current_block = None
    /\ block_counter = 0
    /\ in_infinite_loop = FALSE
    /\ call_stack = <<>>
    /\ method_map = EmptyMap
    /\ method_entries = EmptyMap
    /\ method_exits = EmptyMap
    /\ node_method_map = EmptyMap
    /\ log = <<>>

SpecGenerate == InitGenerate /\ [][GenerateNext]_vars

\* generate is one sequential call: the interpreter takes the next step of
\* the running handler whenever there is one
FairSpecGenerate == SpecGenerate /\ WF_vars(GenerateNext)

(***************************************************************************)
(* utils.py: wrap_code_if_needed, extract_methods, extract_classes         *)
(*                                                                         *)
(* Here a text is laid out from items: top-level methods, classes with     *)
(* their methods, and a statement no form of the text parses with.  A line *)
(* is the sequence of its tokens.  The parser's verdict follows from the   *)
(* items: a text parses as given when it holds classes only, and fails at  *)
(* its first top-level member with "Expected type declaration" otherwise;  *)
(* wrapped, it parses unless it holds the unparseable statement.           *)
(***************************************************************************)
\* most top-level items of a generated text
MaxItems == 2

Count(line, tok) == Cardinality({i \in 1..Len(line) : line[i] = tok})
\* line.count('{'), line.count('}')
Opens(line) == Count(line, "{")
Closes(line) == Count(line, "}")

RECURSIVE Flatten(_)
Flatten(ss) == IF ss = <<>> THEN <<>> ELSE Head(ss) \o Flatten(Tail(ss))

MethodStyles == {"one_line", "compact", "kr", "allman", "nested", "abstract"}
MethodItem(style) == [kind |-> "method", style |-> style]
\* style "one_line": class C { }, "inline": class C { void m() { } },
\* "kr": the members on lines of their own
ClassItem(style, members) == [kind |-> "class", style |-> style, members |-> members]
BrokenItem == [kind |-> "broken"]

MethodLines(style, name) ==
    CASE style = "one_line" -> << <<"void", name, "{", "}">> >>
      [] style = "compact" -> << <<"void", name, "{", "if", "{", "}", "}">> >>
      [] style = "kr" -> << <<"void", name, "{">>, <<"x;">>, <<"}">> >>
      [] style = "allman" -> << <<"void", name>>, <<"{">>, <<"x;">>, <<"}">> >>
      [] style = "nested" -> << <<"void", name, "{">>, <<"if", "{">>, <<"}">>, <<"}">> >>
      [] style = "abstract" -> << <<"void", name, ";">> >>

\* the names of the items by their place in the text
MethodNames == <<"f1", "f2", "f3", "f4">>
ClassNames == <<"C1", "C2", "C3", "C4">>

MemberLines(members) ==
    Flatten([j \in 1..Len(members) |-> MethodLines(members[j].style, "m()")])

ItemLines(item, k) ==
    CASE item.kind = "method" -> MethodLines(item.style, MethodNames[k] \o "()")
      [] item.kind = "broken" -> << <<"int", "x", "=", ";">> >>
      [] item.style = "one_line" -> << <<"class", ClassNames[k], "{", "}">> >>
      [] item.style = "inline" ->
            << <<"class", ClassNames[k], "{">> \o Flatten(MemberLines(item.members)) \o <<"}">> >>
      [] OTHER -> << <<"class", ClassNames[k], "{">> >> \o MemberLines(item.members) \o << <<"}">> >>

\* java_code.splitlines(): `lead' blank lines, then the items
TextLines(lead, items) ==
    [i \in 1..lead |-> <<>>] \o Flatten([k \in 1..Len(items) |-> ItemLines(items[k], k)])

\* the line of the k-th item in a text with `before' lines before the items
RECURSIVE ItemLine(_, _, _)
ItemLine(items, k, before) ==
    IF k = 1 THEN before + 1
    ELSE ItemLine(items, k - 1, before) + Len(ItemLines(items[k - 1], k - 1))

\* javalang.tree.MethodDeclaration: name, position.line, body
MethodNode(name, line, style) == [name |-> name, line |-> line, has_body |-> style # "abstract"]
ClassNode(name, line, methods) == [name |-> name, line |-> line, methods |-> methods]

\* the members of a class item that starts on line p
MemberNodes(item, p) ==
    IF item.style = "kr"
    THEN [j \in 1..Len(item.members) |->
            MethodNode("m", ItemLine(item.members, j, p), item.members[j].style)]
    ELSE [j \in 1..Len(item.members) |-> MethodNode("m", p, item.members[j].style)]

Indices(items, kind) == SelectSeq([k \in 1..Len(items) |-> k], LAMBDA k : items[k].kind = kind)

\* tree.filter(ClassDeclaration) of the text as given, which holds classes only
ClassNodes(items, before) ==
    LET cs == Indices(items, "class")
    IN  [n \in 1..Len(cs) |->
            ClassNode(ClassNames[cs[n]], ItemLine(items, cs[n], before),
                      MemberNodes(items[cs[n]], ItemLine(items, cs[n], before)))]

\* the same of "public class nan {\n<text>\n}": the wrapper first, with the
\* top-level methods as its own
WrappedClassNodes(items, before) ==
    LET ms == Indices(items, "method")
    IN  <<ClassNode("nan", 1,
             [n \in 1..Len(ms) |->
                 MethodNode(MethodNames[ms[n]], ItemLine(items, ms[n], before + 1),
                            items[ms[n]].style)])>>
          \o ClassNodes(items, before + 1)

FirstMember(items) ==
    CHOOSE k \in 1..Len(items) :
        /\ items[k].kind # "class"
        /\ \A j \in 1..(k - 1) : items[j].kind = "class"

ParseAsGiven(lead, items) ==
    IF \A k \in 1..Len(items) : items[k].kind = "class"
    THEN Parsed(ClassNodes(items, lead))
    ELSE JavaSyntaxError(ItemLine(items, FirstMember(items), lead), TRUE)

ParseWrappedText(lead, items) ==
    IF \E k \in 1..Len(items) : items[k].kind = "broken"
    THEN LET k == CHOOSE k \in 1..Len(items) :
                    items[k].kind = "broken" /\ \A j \in 1..(k - 1) : items[j].kind # "broken"
         IN  JavaSyntaxError(ItemLine(items, k, lead + 1), FALSE)
    ELSE Parsed(WrappedClassNodes(items, lead))

HeadOf(items) ==
    IF items = <<>> THEN ""
    ELSE CASE items[1].kind = "class" -> "class"
           [] items[1].kind = "method" -> "void"
           [] OTHER -> "int"

LaidOut(lead, items) ==
    Text(HeadOf(items), TextLines(lead, items), ParseAsGiven(lead, items),
         ParseWrappedText(lead, items))

\* what the parser makes of a text put inside one more class: every line
\* is one further down, and the new class comes first
OneLineDown(c) ==
    [c EXCEPT !.line = @ + 1,
              !.methods = [j \in 1..Len(c.methods) |->
                              [c.methods[j] EXCEPT !.line = @ + 1]]]
Enclosed(outcome) ==
    IF outcome.ok
    THEN Parsed(<<ClassNode("nan", 1, <<>>)>>
                  \o [n \in 1..Len(outcome.tree) |-> OneLineDown(outcome.tree[n])])
    ELSE [outcome EXCEPT !.at = IF @ = None THEN @ ELSE @ + 1]

\* the text "public class nan {\n<text>\n}" written out by the caller
ExplicitlyWrapped(text) ==
    Text("public class",
         << <<"public", "class", "nan", "{">> >> \o text.lines \o << <<"}">> >>,
         text.wrapped, Enclosed(text.wrapped))

\* --- wrap_code_if_needed -------------------------------------------------
StartsWithClassDeclaration(text) ==
    text.head \in {"class", "public class", "private class", "protected class",
                   "abstract class", "final class"}

\* what wrap_code_if_needed returns: which text, and was_wrapped
WrapCodeIfNeeded(text) ==
    IF StartsWithClassDeclaration(text) \/ text.as_is.ok \/ ~text.wrapped.ok
    THEN [code |-> "original", was_wrapped |-> FALSE]
    ELSE [code |-> "wrapped", was_wrapped |-> TRUE]

\* return (code, flag): to the caller's locals, or as the result of a direct call
WrapReturns(code, flag) ==
    /\ pc' = "wrap_returned"
    /\ IF Top.f = "wrap_code_if_needed"
       THEN /\ result' = [f |-> Top.f, code |-> code, was_wrapped |-> flag]
            /\ kont' = <<>>
       ELSE /\ result' = result
            /\ kont' = <<[Top EXCEPT !.wrapped_code = code, !.was_wrapped = flag]>>

\* lines 23-52: the prefix test and the parse of the text as given
WrapParse ==
    /\ pc = "wrap_code_if_needed"
    /\ IF StartsWithClassDeclaration(java_code)
       THEN parses' = parses /\ WrapReturns("original", FALSE)
       ELSE /\ parses' = Append(parses, "original")
            /\ IF java_code.as_is.ok
               THEN WrapReturns("original", FALSE)
               ELSE /\ pc' = IF ~java_code.as_is.syntax THEN "raised"
                             ELSE IF WrapsAtTypeDeclaration(java_code.as_is)
                             THEN "wrap_at_type_declaration"
                             ELSE "wrap_for_other_errors"
                    /\ UNCHANGED <<kont, result>>
    /\ UNCHANGED <<java_code, line_map, prog, cfg_nodes, cfg_edges, current_block,
                   block_counter, in_infinite_loop, call_stack, method_map,
                   method_entries, method_exits, node_method_map, log>>

\* lines 54-61: the wrapped text is parsed
WrapAtTypeDeclaration ==
    /\ pc = "wrap_at_type_declaration"
    /\ parses' = Append(parses, "wrapped")
    /\ IF java_code.wrapped.ok
       THEN WrapReturns("wrapped", TRUE)
       ELSE pc' = "wrap_for_other_errors" /\ UNCHANGED <<kont, result>>
    /\ UNCHANGED <<java_code, line_map, prog, cfg_nodes, cfg_edges, current_block,
                   block_counter, in_infinite_loop, call_stack, method_map,
                   method_entries, method_exits, node_method_map, log>>

\* lines 63-72: the wrapped text is parsed, whether or not it was before
WrapForOtherErrors ==
    /\ pc = "wrap_for_other_errors"
    /\ parses' = Append(parses, "wrapped")
    /\ IF java_code.wrapped.ok
       THEN WrapReturns("wrapped", TRUE)
       ELSE WrapReturns("original", FALSE)
    /\ UNCHANGED <<java_code, line_map, prog, cfg_nodes, cfg_edges, current_block,
                   block_counter, in_infinite_loop, call_stack, method_map,
                   method_entries, method_exits, node_method_map, log>>

\* --- extract_methods -----------------------------------------------------
\* "\n".join(lines).strip(): blank lines at either end go
RECURSIVE StripLines(_)
StripLines(ls) ==
    IF ls = <<>> THEN ls
    ELSE IF Head(ls) = <<>> THEN StripLines(Tail(ls))
    ELSE IF ls[Len(ls)] = <<>> THEN StripLines(SubSeq(ls, 1, Len(ls) - 1))
    ELSE ls

\* the loop of lines 309-324, from the line of index i
RECURSIVE ScanMethod(_, _, _, _, _)
ScanMethod(lines, i, in_method_body, brace_count, method_lines) ==
    IF i > Len(lines) THEN method_lines
    ELSE IF Opens(lines[i]) > 0 /\ ~in_method_body
    THEN ScanMethod(lines, i + 1, TRUE, brace_count + Opens(lines[i]),
                    Append(method_lines, lines[i]))
    ELSE IF in_method_body
    THEN IF brace_count + Opens(lines[i]) - Closes(lines[i]) = 0
         THEN Append(method_lines, lines[i])
         ELSE ScanMethod(lines, i + 1, TRUE,
                         brace_count + Opens(lines[i]) - Closes(lines[i]),
                         Append(method_lines, lines[i]))
    ELSE ScanMethod(lines, i + 1, FALSE, brace_count, method_lines)

Max(a, b) == IF a > b THEN a ELSE b
\* start_line of lines 301-302 and 362-363, as an index from 1
StartLine(node, line_offset) == Max(0, node.line - 1 - line_offset) + 1

MethodCode(lines, method, line_offset) ==
    StripLines(ScanMethod(lines, StartLine(method, line_offset), FALSE, 0, <<>>))

\* lines 297-333: the entries of one class
RECURSIVE MethodEntries(_, _, _, _)
MethodEntries(lines, methods, j, line_offset) ==
    IF j > Len(methods) THEN <<>>
    ELSE LET method_code == MethodCode(lines, methods[j], line_offset)
             rest == MethodEntries(lines, methods, j + 1, line_offset)
         IN  IF \/ ~methods[j].has_body
                \/ method_code = <<>>
                \/ \A i \in 1..Len(method_code) : Opens(method_code[i]) = 0
             THEN rest
             ELSE <<[name |-> methods[j].name, code |-> method_code]>> \o rest

\* the node a class name ends up with: a later class of the same name
\* overwrites the entry of an earlier one
LastNamed(classes, name) ==
    classes[CHOOSE n \in 1..Len(classes) :
               /\ classes[n].name = name
               /\ \A k \in (n + 1)..Len(classes) : classes[k].name # name]
NamesOf(classes) == {classes[n].name : n \in 1..Len(classes)}

ExtractMethodsFrom(lines, classes, line_offset) ==
    [c \in NamesOf(classes) |->
        MethodEntries(lines, LastNamed(classes, c).methods, 1, line_offset)]

\* --- extract_classes -----------------------------------------------------
\* the loop of lines 369-385
RECURSIVE ScanClass(_, _, _, _, _)
ScanClass(lines, i, in_class, brace_count, class_lines) ==
    IF i > Len(lines) THEN class_lines
    ELSE LET count == brace_count + Opens(lines[i]) - Closes(lines[i])
             taken == Append(class_lines, lines[i])
         IN  IF ~in_class /\ Opens(lines[i]) > 0
             THEN ScanClass(lines, i + 1, TRUE, Opens(lines[i]) - Closes(lines[i]), taken)
             ELSE IF in_class /\ count <= 0
             THEN taken
             ELSE ScanClass(lines, i + 1, in_class, count, taken)

\* " ".join(class_lines).strip(): the tokens of the lines, in one line
ClassCode(lines, class_node, line_offset) ==
    Flatten(ScanClass(lines, StartLine(class_node, line_offset), FALSE, 0, <<>>))

ExtractClassesFrom(lines, classes, line_offset) ==
    [c \in NamesOf(classes) |-> ClassCode(lines, LastNamed(classes, c), line_offset)]

\* --- the two functions, from the text to their result --------------------
HandedOn(text, code) == IF code = "wrapped" THEN text.wrapped ELSE text.as_is
LineOffset(was_wrapped) == IF was_wrapped THEN 1 ELSE 0

Extracted(f, text, code, was_wrapped) ==
    LET outcome == HandedOn(text, code)
    IN  IF ~outcome.ok
        THEN [f |-> f, ok |-> FALSE, line |-> outcome.at]
        ELSE [f |-> f, ok |-> TRUE,
              map |-> IF f = "extract_methods"
                      THEN ExtractMethodsFrom(text.lines, outcome.tree, LineOffset(was_wrapped))
                      ELSE ExtractClassesFrom(text.lines, outcome.tree, LineOffset(was_wrapped))]

ExtractMethodsOf(text) ==
    Extracted("extract_methods", text, WrapCodeIfNeeded(text).code,
              WrapCodeIfNeeded(text).was_wrapped)
ExtractClassesOf(text) ==
    Extracted("extract_classes", text, WrapCodeIfNeeded(text).code,
              WrapCodeIfNeeded(text).was_wrapped)

\* extract_methods after its call of wrap_code_if_needed
ExtractMethods ==
    /\ pc = "wrap_returned" /\ Running /\ Top.f = "extract_methods"
    /\ parses' = Append(parses, Top.wrapped_code)
    /\ result' = Extracted(Top.f, java_code, Top.wrapped_code, Top.was_wrapped)
    /\ pc' = "returned"
    /\ kont' = <<>>
    /\ UNCHANGED <<java_code, line_map, prog, cfg_nodes, cfg_edges, current_block,
                   block_counter, in_infinite_loop, call_stack, method_map,
                   method_entries, method_exits, node_method_map, log>>

\* extract_classes after its call of wrap_code_if_needed
ExtractClasses ==
    /\ pc = "wrap_returned" /\ Running /\ Top.f = "extract_classes"
    /\ parses' = Append(parses, Top.wrapped_code)
    /\ result' = Extracted(Top.f, java_code, Top.wrapped_code, Top.was_wrapped)
    /\ pc' = "returned"
    /\ kont' = <<>>
    /\ UNCHANGED <<java_code, line_map, prog, cfg_nodes, cfg_edges, current_block,
                   block_counter, in_infinite_loop, call_stack, method_map,
                   method_entries, method_exits, node_method_map, log>>

\* --- the texts -----------------------------------------------------------
ClassItems ==
    {ClassItem("one_line", <<>>), ClassItem("inline", <<MethodItem("one_line")>>),
     ClassItem("kr", <<>>)}
      \cup {ClassItem("kr", <<MethodItem(s)>>) : s \in MethodStyles}
Items == {MethodItem(s) : s \in MethodStyles} \cup ClassItems \cup {BrokenItem}

UtilsTexts == {LaidOut(lead, items) : lead \in 0..1, items \in SeqsUpTo(Items, MaxItems)}

(***************************************************************************)
(* utils.py: detect_relationships                                          *)
(*                                                                         *)
(* The tree as javalang builds it: a ReferenceType has a name and a list   *)
(* of TypeArgument nodes, a TypeArgument has the attributes type and       *)
(* pattern_type and no name; the methods of a class are its                *)
(* MethodDeclaration members, its constructors are ConstructorDeclaration  *)
(* members and are not among them.  Of str(method.body) the model keeps    *)
(* which names occur in it and whether "new " occurs in it.                *)
(***************************************************************************)
ReferenceType(name, arguments) == [name |-> name, arguments |-> arguments]
TypeArgument(type) == [type |-> type, pattern_type |-> None]
FieldDeclaration(type, modifiers, declarators) ==
    [type |-> type, modifiers |-> modifiers, declarators |-> declarators]
\* a MethodDeclaration; the return_type of a void method has no name
Void == [void |-> TRUE]
Method(name, parameters, return_type, body) ==
    [name |-> name, parameters |-> parameters, return_type |-> return_type, body |-> body]
\* a method body: its statements, and what str() of it holds
Body(statements, names, new_text) ==
    [statements |-> statements, names |-> names, new_text |-> new_text]
\* a ConstructorDeclaration, with the fields it assigns a `new` expression to
Constructor(assigns_new) == [assigns_new |-> assigns_new]
ClassDeclaration(name, fields, methods, constructors) ==
    [name |-> name, fields |-> fields, methods |-> methods, constructors |-> constructors]

\* hasattr(node, 'name')
HasName(node) == "name" \in DOMAIN node

\* the names of the texts whose lower case holds one of 'list', 'arraylist',
\* 'set', 'hashset', 'collection', 'map', 'hashmap'
CollectionLike == {"List", "Playlist"}
IsCollection(type_name) == type_name \in CollectionLike

Relation(kind, from, to, via) == [kind |-> kind, from |-> from, to |-> to, via |-> via]

\* lines 449-456: one aggregation entry for each type argument that has a
\* name, the name of a class of the text
RECURSIVE ArgumentEntries(_, _, _, _)
ArgumentEntries(class_name, field, class_names, i) ==
    IF i > Len(field.type.arguments) THEN <<>>
    ELSE LET arg == field.type.arguments[i]
             rest == ArgumentEntries(class_name, field, class_names, i + 1)
         IN  IF HasName(arg) /\ arg.name \in class_names
             THEN <<Relation("aggregation", class_name, arg.name,
                             "field: " \o field.type.name \o "<" \o arg.name \o ">")>> \o rest
             ELSE rest

\* generic_arg_name: the last such argument; "" stands for None, which no
\* type name equals
GenericArgName(field, class_names) ==
    LET named == {i \in 1..Len(field.type.arguments) :
                     HasName(field.type.arguments[i])
                       /\ field.type.arguments[i].name \in class_names}
    IN  IF named = {} THEN ""
        ELSE field.type.arguments[CHOOSE i \in named : \A j \in named : j <= i].name

\* lines 476-484
InitializedInConstructor(class_node, field) ==
    \E m \in 1..Len(class_node.methods) :
        LET method == class_node.methods[m]
        IN  /\ method.name = class_node.name \/ method.name = "<init>"
            /\ method.body.statements # <<>>
            /\ method.body.new_text
            /\ \E d \in 1..Len(field.declarators) :
                   field.declarators[d] \in method.body.names

\* lines 461-489
RelType(class_node, field) ==
    IF IsCollection(field.type.name) THEN "aggregation"
    ELSE IF /\ "final" \in field.modifiers
            /\ "private" \in field.modifiers
            /\ InitializedInConstructor(class_node, field)
    THEN "composition"
    ELSE "association"

\* lines 439-498: the entries of one field
FieldEntries(class_node, field, class_names) ==
    ArgumentEntries(class_node.name, field, class_names, 1)
      \o (IF /\ field.type.name \in class_names
             /\ field.type.name # GenericArgName(field, class_names)
          THEN <<Relation(RelType(class_node, field), class_node.name, field.type.name, "field")>>
          ELSE <<>>)

\* lines 500-531: parameters, then return types
ParameterEntries(class_node, class_names) ==
    Flatten([m \in 1..Len(class_node.methods) |->
        LET ps == class_node.methods[m].parameters
        IN  Flatten([p \in 1..Len(ps) |->
                IF ps[p].name \in class_names
                THEN <<Relation("association", class_node.name, ps[p].name, "method parameter")>>
                ELSE <<>>])])

ReturnEntries(class_node, class_names) ==
    Flatten([m \in 1..Len(class_node.methods) |->
        LET rt == class_node.methods[m].return_type
        IN  IF HasName(rt) /\ rt.name \in class_names
            THEN <<Relation("association", class_node.name, rt.name, "method return type")>>
            ELSE <<>>])

ClassEntries(class_node, class_names) ==
    Flatten([f \in 1..Len(class_node.fields) |->
                FieldEntries(class_node, class_node.fields[f], class_names)])
      \o ParameterEntries(class_node, class_names)
      \o ReturnEntries(class_node, class_names)

\* lines 533-542: the first entry of each (from, to, via) stays
RECURSIVE Unique(_)
Unique(rels) ==
    IF rels = <<>> THEN <<>>
    ELSE LET init == Unique(SubSeq(rels, 1, Len(rels) - 1))
             last == rels[Len(rels)]
         IN  IF \E i \in 1..Len(init) : init[i] = last THEN init ELSE Append(init, last)

OfKind(rels, kind) ==
    Unique(SelectSeq(rels, LAMBDA r : r.kind = kind))

\* the three lists for a parsed tree
Relationships(classes) ==
    LET all == Flatten([n \in 1..Len(classes) |->
                           ClassEntries(LastNamed(classes, classes[n].name), NamesOf(classes))])
    IN  [association |-> OfKind(all, "association"),
         aggregation |-> OfKind(all, "aggregation"),
         composition |-> OfKind(all, "composition")]

NoRelationships == [association |-> <<>>, aggregation |-> <<>>, composition |-> <<>>]

\* detect_relationships after its call of wrap_code_if_needed; any exception
\* gives the empty lists
DetectRelationships ==
    /\ pc = "wrap_returned" /\ Running /\ Top.f = "detect_relationships"
    /\ parses' = Append(parses, Top.wrapped_code)
    /\ result' = [f |-> Top.f, ok |-> TRUE,
                  relationships |->
                      IF HandedOn(java_code, Top.wrapped_code).ok
                      THEN Relationships(HandedOn(java_code, Top.wrapped_code).tree)
                      ELSE NoRelationships]
    /\ pc' = "returned"
    /\ kont' = <<>>
    /\ UNCHANGED <<java_code, line_map, prog, cfg_nodes, cfg_edges, current_block,
                   block_counter, in_infinite_loop, call_stack, method_map,
                   method_entries, method_exits, node_method_map, log>>

\* --- the texts: class Car with one field, and the class of the field ------
Access == {{}, {"private"}, {"protected"}, {"public"}}
FieldModifiers == {a \cup f : a \in Access, f \in {{}, {"final"}}}

\* the field `part`: of a class of the text, or of List<that class>
FieldTypes(target) ==
    {ReferenceType(target, <<>>),
     ReferenceType("List", <<TypeArgument(ReferenceType(target, <<>>))>>)}

\* no method named like the class, or one whose body text holds or does not
\* hold the field's name and "new "
SameNamedMethods ==
    {<<>>} \cup {<<Method("Car", <<>>, Void, Body(<<"StatementExpression">>, names, new_text))>> :
                    names \in {{}, {"part"}}, new_text \in BOOLEAN}
Getters(target) == {<<>>, <<Method("get", <<ReferenceType(target, <<>>)>>,
                                   ReferenceType(target, <<>>), Body(<<>>, {}, FALSE))>>}

Cars(target) ==
    {ClassDeclaration("Car", <<FieldDeclaration(type, mods, <<"part">>)>>, ms \o gs,
                      IF assigned THEN <<Constructor({"part"})>> ELSE <<>>) :
        type \in FieldTypes(target), mods \in FieldModifiers, ms \in SameNamedMethods,
        gs \in Getters(target), assigned \in BOOLEAN}

FieldLine(field) ==
    <<field.type.name>> \o (IF field.type.arguments = <<>> THEN <<>>
                            ELSE <<"<", field.type.arguments[1].type.name, ">">>)
      \o <<field.declarators[1], ";">>
ClassText(c) ==
    << <<"class", c.name, "{">> >> \o [f \in 1..Len(c.fields) |-> FieldLine(c.fields[f])]
      \o << <<"}">> >>

RelationTexts ==
    {LET tree == <<ClassDeclaration(target, <<>>, <<>>, <<>>), car>>
     IN  Text("class", ClassText(tree[1]) \o ClassText(tree[2]), Parsed(tree),
              Parsed(<<ClassDeclaration("nan", <<>>, <<>>, <<>>)>> \o tree)) :
        target \in {"Engine", "Playlist"}, car \in UNION {Cars(t) : t \in {"Engine", "Playlist"}}}

UtilsFunctions == {"wrap_code_if_needed", "extract_methods", "extract_classes"}

InitUtils ==
    /\ \/ /\ java_code \in UtilsTexts
          /\ kont \in {<<[f |-> fn, wrapped_code |-> "", was_wrapped |-> FALSE]>> : fn \in UtilsFunctions}
       \/ /\ java_code \in RelationTexts
          /\ kont = <<[f |-> "detect_relationships", wrapped_code |-> "", was_wrapped |-> FALSE]>>
    /\ pc = "wrap_code_if_needed"
    /\ parses = <<>>
    /\ result = None
    /\ line_map = EmptyMap
    /\ prog = <<>>
    /\ cfg_nodes = <<>>
    /\ cfg_edges = {}
    /\ current_block = None
    /\ block_counter = 0
    /\ in_infinite_loop = FALSE
    /\ call_stack = <<>>
    /\ method_map = EmptyMap
    /\ method_entries = EmptyMap
    /\ method_exits = EmptyMap
    /\ node_method_map = EmptyMap
    /\ log = <<>>

UtilsNext ==
    \/ WrapParse
    \/ WrapAtTypeDeclaration
    \/ WrapForOtherErrors
    \/ ExtractMethods
    \/ ExtractClasses
    \/ DetectRelationships

SpecUtils == InitUtils /\ [][UtilsNext]_vars

(***************************************************************************)
(* Vocabulary of the properties                                            *)
(***************************************************************************)
Done == kont = <<>>
AllBlocks == 0..(block_counter - 1)
TagAt(b) == cfg_nodes[b + 1].tag
Events(kind) == {log[i] : i \in {j \in 1..Len(log) : log[j].e = kind}}
\* the step appends an event of this kind to the history
Logs(kind) == log' # log /\ log'[Len(log')].e = kind
NewEvent == log'[Len(log')]
Incoming(b) == {e \in cfg_edges : e[2] = b}
InfiniteLoops == {ev \in Events("loop") : ev.verdict = "infinite"}
NeverLoops == {ev \in Events("loop") : ev.verdict = "never"}
ResolvedCalls == {ev \in Events("call") : ev.resolved}

\* C1 (as claimed): once the build has finished, every block is reachable
\* from the METHOD ENTRY block of the method it is attributed to, unless it
\* was created after the condition block of a loop classified infinite.
EntryOf(b) == method_entries[node_method_map[b]]
ReachableFromEntry(b) == b \in ReachSet(cfg_edges, {EntryOf(b)})
FollowsInfiniteLoop(b) == \E ev \in InfiniteLoops : b > ev.cond_block
C1_EveryBlockReachable ==
    Done => \A b \in AllBlocks : ReachableFromEntry(b) \/ FollowsInfiniteLoop(b)

\* C2 (as claimed): a case without break (or an empty case) has an edge from
\* the block its translation ends in to the label block of the next case,
\* and the last case to the SWITCH MERGE block.
C2_FallThroughEdge ==
    \A ev \in Events("case") : ~ev.has_break =>
        IF ev.index < ev.ncases
        THEN \A nx \in Events("case") :
                 (nx.switch_block = ev.switch_block /\ nx.index = ev.index + 1)
                     => <<ev.end_block, nx.label_block>> \in cfg_edges
        ELSE <<ev.end_block, ev.merge_block>> \in cfg_edges

\* C3 (as claimed): after a resolvable call, every METHOD EXIT block created
\* so far in the body of the callee has an edge to the continuation block of
\* the call site.
C3_EveryExitLinked ==
    \A ev \in ResolvedCalls : \A b \in AllBlocks :
        (b < ev.continuation /\ TagAt(b) = "METHOD EXIT" /\ node_method_map[b] = ev.name)
            => <<b, ev.continuation>> \in cfg_edges

\* C4 (as claimed): in every state the only edge leaving the condition block
\* of a loop classified infinite goes to the body block of that loop.
C4_NoEdgeOutOfInfiniteLoop ==
    \A ev \in InfiniteLoops : \A e \in cfg_edges :
        e[1] = ev.cond_block => e[2] = ev.body_block

\* _process_block is about to go on in a statement list whose previous
\* statement was a loop that has just been classified infinite
AfterInfiniteLoop ==
    /\ Running /\ Top.f = "block" /\ Top.i > 1 /\ Top.i <= Len(Top.stmts)
    /\ log # <<>> /\ log[Len(log)].e = "loop" /\ log[Len(log)].verdict = "infinite"
    /\ log[Len(log)].node = Top.stmts[Top.i - 1]

\* C5 (as claimed): the statement that follows an infinite loop in the same
\* block is handed on to _process_statement.
C5_FollowersTranslated ==
    [][AfterInfiniteLoop
         => kont' = Pop \o <<[Top EXCEPT !.i = @ + 1], StmtFrame(Top.stmts[Top.i])>>]_vars

\* C5 (amended): the statements that follow an infinite loop in the same
\* statement list of _process_block are dropped: the list is left at once
\* and the step adds no block, no edge and no line.
C5_FollowersSkipped ==
    [][AfterInfiniteLoop
         => /\ kont' = Pop
            /\ cfg_nodes' = cfg_nodes /\ cfg_edges' = cfg_edges
            /\ block_counter' = block_counter /\ current_block' = current_block]_vars

C5_Witness ==
    \E i \in 2..Len(log) :
        /\ log[i].e = "skip" /\ log[i].skipped # <<>>
        /\ log[i - 1].e = "loop" /\ log[i - 1].verdict = "infinite"
        /\ log[i].after = log[i - 1].cond_block

Withheld(from, to) == in_infinite_loop /\ from # to /\ IsLoopConditionTag(TagAt(from))

NeverRunsShape(ev) ==
    CASE ev.kind = "while" ->
             Incoming(ev.cond_block) = {} /\ Incoming(ev.body_block) = {}
      [] ev.kind = "for" ->
             /\ Incoming(ev.body_block) = {}
             /\ Incoming(ev.cond_block) = {<<ev.init_block, ev.cond_block>>}
             /\ <<ev.init_block, ev.exit_block>> \in cfg_edges
      [] OTHER ->
             /\ <<ev.body_block, ev.cond_block>> \in cfg_edges
             /\ Incoming(ev.body_block) \subseteq {<<ev.pred, ev.body_block>>}

\* the edge into the LOOP EXIT block that the step finishing a never-running
\* loop adds, and the block it leaves current
NeverRunsExitEdge(ev) ==
    LET from == CASE ev.kind = "while" -> ev.pred
                  [] ev.kind = "for" -> ev.init_block
                  [] OTHER -> ev.cond_block
    IN  /\ (<<from, ev.exit_block>> \in cfg_edges') <=> ~Withheld(from, ev.exit_block)
        /\ TagAt(from) = cfg_nodes'[from + 1].tag
        /\ cfg_nodes'[ev.exit_block + 1].tag = "LOOP EXIT"
        /\ current_block' = ev.exit_block

ExprWrites(e, v) ==
    \/ e.t = "MemberReference" /\ e.member = v
         /\ (e.prefix_operators # <<>> \/ e.postfix_operators # <<>>)
    \/ e.t = "Assignment" /\ e.expressionl.member = v

RECURSIVE StmtWrites(_, _)
StmtWrites(s, v) ==
    CASE s.k = "StatementExpression" -> ExprWrites(s.expression, v)
      [] s.k = "BlockStatement" -> \E i \in 1..Len(s.statements) : StmtWrites(s.statements[i], v)
      [] s.k = "IfStatement" -> StmtWrites(s.then_statement, v) \/ StmtWrites(s.else_statement, v)
      [] s.k \in {"WhileStatement", "DoStatement", "ForStatement"} -> StmtWrites(s.body, v)
      [] s.k = "SwitchStatement" ->
             \E c \in 1..Len(s.cases) : \E i \in 1..Len(s.cases[c].statements) :
                 StmtWrites(s.cases[c].statements[i], v)
      [] OTHER -> FALSE

\* for (...; v op literal; v++ | ++v | v-- | --v) with a body that leaves v alone
CountedFor(node) ==
    /\ node.k = "ForStatement" /\ node.control = "ForControl"
    /\ node.condition.t = "BinaryOperation"
    /\ node.condition.operator \in {"<", "<=", ">", ">="}
    /\ node.condition.operandl.t = "MemberReference"
    /\ node.condition.operandl = MemberReference(node.condition.operandl.member)
    /\ node.condition.operandr.t = "Literal"
    /\ Len(node.update) = 1
    /\ \E o \in {"++", "--"} :
           node.update[1] \in {Postfix(node.condition.operandl.member, o),
                               Prefix(node.condition.operandl.member, o)}
    /\ ~StmtWrites(node.body, node.condition.operandl.member)

Increments(node) == node.update[1].prefix_operators \o node.update[1].postfix_operators = <<"++">>

MovesAway(node) ==
    \/ node.condition.operator \in {">", ">="} /\ Increments(node)
    \/ node.condition.operator \in {"<", "<="} /\ ~Increments(node)

\* C7 (as claimed): a counted for loop is classified infinite exactly when
\* its update moves the variable away from falsifying the condition; when
\* finite it has a LOOP EXIT block with an edge from the condition block,
\* when infinite it has no LOOP EXIT block.
C7_CountedForVerdict ==
    \A ev \in Events("loop") : (ev.kind = "for" /\ CountedFor(ev.node)) =>
        /\ ev.verdict = IF MovesAway(ev.node) THEN "infinite" ELSE "finite"
        /\ ev.verdict = "finite" =>
               /\ TagAt(ev.exit_block) = "LOOP EXIT"
               /\ <<ev.cond_block, ev.exit_block>> \in cfg_edges
        /\ ev.verdict = "infinite" => ev.exit_block = None

\* C8: no two METHOD ENTRY blocks are created for the same method key.
C8_EntryCreatedOnce ==
    \A a, b \in AllBlocks :
        (TagAt(a) = "METHOD ENTRY" /\ TagAt(b) = "METHOD ENTRY"
           /\ cfg_nodes[a + 1].of = cfg_nodes[b + 1].of) => a = b

\* the pass over the declarations reaches a method that a call has built
\* lazily and that has been called more than once
C8_Witness ==
    /\ Running /\ Top.f = "method" /\ AlreadyProcessed(Top.decl.name)
    /\ \E ev \in ResolvedCalls : ev.name = Top.decl.name /\ ev.lazy
    /\ \E ev \in ResolvedCalls : ev.name = Top.decl.name /\ ~ev.lazy

\* what the step that links a resolvable call leaves behind, but for the
\* edge to the entry block of the callee
ContinuationMade(ev) ==
    /\ block_counter' = block_counter + 1
    /\ ev.continuation = block_counter
    /\ cfg_nodes'[ev.continuation + 1].tag = "BLOCK"
    /\ node_method_map'[ev.continuation] = ev.in_method
    /\ current_block' = ev.continuation

\* C9 (as claimed): linking a resolvable call adds the edge from the block
\* current at the call site to the entry block of the callee, creates one
\* continuation block attributed to the calling method and leaves it current.
C9_CallLinked ==
    [][(Logs("call") /\ NewEvent.resolved)
         => /\ <<NewEvent.caller_block, NewEvent.entry>> \in cfg_edges'
            /\ ContinuationMade(NewEvent)]_vars

\* C9 (amended): as claimed, except that the edge to the entry block of the
\* callee is added only if _connect_blocks does not withhold it (the block
\* of the call site is a loop condition block and in_infinite_loop is set).
C9_CallLinkedUnlessWithheld ==
    [][(Logs("call") /\ NewEvent.resolved)
         => /\ (<<NewEvent.caller_block, NewEvent.entry>> \in cfg_edges')
                  <=> (~Withheld(NewEvent.caller_block, NewEvent.entry)
                         \/ <<NewEvent.caller_block, NewEvent.entry>> \in cfg_edges)
            /\ ContinuationMade(NewEvent)]_vars

C9_Witness ==
    /\ \E ev \in ResolvedCalls : ev.lazy /\ <<ev.caller_block, ev.entry>> \in cfg_edges
    /\ \E ev \in ResolvedCalls :
           /\ ~ev.lazy /\ current_block = ev.continuation
           /\ <<ev.caller_block, ev.entry>> \in cfg_edges
           /\ node_method_map[ev.continuation] = "main"

\* a call of a method that no class of the input declares is about to be
\* translated
UndeclaredCall == AtCall /\ \A i \in 1..Len(prog) : prog[i].name # Callee

\* C10: translating a call of an undeclared method appends one line to the
\* label of the current block and changes nothing else: not the blocks, the
\* edges, the current block, the call stack, the entry and exit maps.
C10_UnresolvedCallFrame ==
    [][UndeclaredCall
         => /\ cfg_edges' = cfg_edges /\ current_block' = current_block
            /\ block_counter' = block_counter /\ call_stack' = call_stack
            /\ method_entries' = method_entries /\ method_exits' = method_exits
            /\ node_method_map' = node_method_map /\ in_infinite_loop' = in_infinite_loop
            /\ Len(cfg_nodes') = Len(cfg_nodes)
            /\ \A b \in AllBlocks : b # current_block => cfg_nodes'[b + 1] = cfg_nodes[b + 1]
            /\ cfg_nodes'[current_block + 1].tag = TagAt(current_block)
            /\ Len(cfg_nodes'[current_block + 1].lines) = Len(cfg_nodes[current_block + 1].lines) + 1
            /\ SubSeq(cfg_nodes'[current_block + 1].lines, 1, Len(cfg_nodes[current_block + 1].lines))
                 = cfg_nodes[current_block + 1].lines]_vars

C10_Witness ==
    \E i \in 1..Len(log) :
        /\ log[i].e = "call" /\ ~log[i].resolved
        /\ cfg_nodes[log[i].caller_block + 1].lines # <<>>

\* the pass over the declarations is at a method declared without a body
\* (an abstract or interface method) that has not been handled before
AtBodylessMethod ==
    /\ Running /\ Top.f = "method"
    /\ ~Top.decl.has_body /\ ~AlreadyProcessed(Top.decl.name)

\* C11 (as claimed): handling a method declared without a body adds no
\* block and no edge to the graph.
C11_BodylessMethodAddsNothing ==
    [][AtBodylessMethod
         => cfg_nodes' = cfg_nodes /\ cfg_edges' = cfg_edges
              /\ block_counter' = block_counter]_vars

\* the declarations of the input that share a simple name, and the first of
\* them in the order of the input
SameNamed(name) == {i \in 1..Len(prog) : prog[i].name = name}
FirstDeclared(name) ==
    prog[CHOOSE i \in SameNamed(name) : \A j \in SameNamed(name) : i <= j]

\* C12 (as claimed): the subgraph that the calls of a simple name are linked
\* to is built from the first declaration of that name, whether it is built
\* by the pass over the declarations or lazily at a call site: whenever the
\* entry block of a name is about to be created, the declaration being
\* translated is the first one declared with that name.
C12_FirstDeclaredIsBuilt ==
    (Running /\ Top.f = "method" /\ ~AlreadyProcessed(Top.decl.name))
        => Top.decl = FirstDeclared(Top.decl.name)

\* the tree being translated came from the parse of the wrapped text
WasWrapped == parses # <<>> /\ parses[Len(parses)] = "wrapped" /\ prog # <<>>

\* the `L<line>: <text>` annotations written into the label of block b
Annotations(b) == {cfg_nodes[b + 1].lines[i] : i \in 1..Len(cfg_nodes[b + 1].lines)}

\* the line of the text as given on which the annotated statement stands:
\* the wrapped text has one line before the first line of the text
OriginalLine(a) == IF WasWrapped THEN a.line - 1 ELSE a.line

\* C14 (as claimed): every annotation written into a block label carries
\* the trimmed text of the line of the original text on which its statement
\* stands, also when the tree was parsed from the wrapped text.
C14_AnnotationCarriesOwnLine ==
    \A b \in AllBlocks : \A a \in Annotations(b) :
        a.text = Strip(java_code.lines[OriginalLine(a)])

\* the text parses neither as given nor wrapped
Unparseable == ~java_code.as_is.ok /\ ~java_code.wrapped.ok

\* the last text handed to the parser was parsed
ParseSucceeded ==
    /\ parses # <<>>
    /\ \/ parses[Len(parses)] = "original" /\ java_code.as_is.ok
       \/ parses[Len(parses)] = "wrapped" /\ java_code.wrapped.ok

EmptyGraph == cfg_nodes = <<>> /\ cfg_edges = {} /\ block_counter = 0

\* C15: for a text that parses neither as given nor wrapped, generate
\* translates nothing, the graph keeps no block and no edge, and generate
\* ends by raising; whenever generate raises the graph is empty; and generate
\* returns only after a parse that succeeded.
C15_RaisesWithEmptyGraph ==
    /\ [](Unparseable => (EmptyGraph /\ pc \notin {"process_tree", "returned"}))
    /\ [](pc = "raised" => EmptyGraph)
    /\ [](pc = "returned" => ParseSucceeded)
    /\ (Unparseable ~> pc = "raised")

\* generate has raised after both the text and its wrapped form failed to
\* parse
C15_Witness == pc = "raised" /\ parses = <<"original", "wrapped">> /\ Unparseable

\* the bodies whose translation has finished, in order, by method key
TranslatedBodies ==
    SelectSeq(log, LAMBDA ev : ev.e = "method" /\ ev.body)

\* C16: once a tree is parsed, generate reaches its return, also for methods
\* that call themselves and for mutually recursive methods, and no method
\* body is translated twice.
C16_BuildFinishes ==
    /\ (pc = "process_tree" ~> pc = "returned")
    /\ [](\A i, j \in 1..Len(TranslatedBodies) :
             TranslatedBodies[i].key = TranslatedBodies[j].key => i = j)

\* generate has returned the graph of a method that calls itself and of a
\* set of mutually recursive methods
C16_Witness ==
    /\ pc = "returned"
    /\ \E ev \in ResolvedCalls : ev.name = ev.in_method
    /\ \E ev \in ResolvedCalls : ev.name = "main"
    /\ Len(TranslatedBodies) > 1

\* how often the wrapped text has been handed to the parser
WrappedParses == Cardinality({i \in 1..Len(parses) : parses[i] = "wrapped"})

\* C13 (as claimed): wrap_code_if_needed hands the wrapped text to the
\* parser at most once.
C13_WrappedParsedAtMostOnce ==
    pc \in {"wrap_code_if_needed", "wrap_at_type_declaration", "wrap_for_other_errors",
            "wrap_returned"}
        => WrappedParses <= 1

\* --- the spans of extract_methods and extract_classes ---------------------
\* the running count of `{` minus `}` over the lines a..i of the text
RECURSIVE Balance(_, _, _)
Balance(lines, a, i) ==
    IF i < a THEN 0
    ELSE Balance(lines, a, i - 1) + Opens(lines[i]) - Closes(lines[i])

Least(S) == CHOOSE i \in S : \A j \in S : i <= j
\* the first line from `start` on with an opening brace, and the first line
\* from there on at which the running count is back at zero
FirstBrace(lines, start) == Least({i \in start..Len(lines) : Opens(lines[i]) > 0})
ClosingLine(lines, start) ==
    Least({i \in FirstBrace(lines, start)..Len(lines) :
              Balance(lines, FirstBrace(lines, start), i) = 0})
BracedSpan(lines, start) == SubSeq(lines, start, ClosingLine(lines, start))

\* the tree the function has walked, and the line of a declaration in the
\* text as given
WalkedTree == HandedOn(java_code, WrapCodeIfNeeded(java_code).code).tree
DeclarationLine(node) == node.line - LineOffset(WrapCodeIfNeeded(java_code).was_wrapped)
IsWrapper(class_node) == WrapCodeIfNeeded(java_code).was_wrapped /\ class_node.name = "nan"

HasReturned(f) == pc = "returned" /\ result.f = f /\ result.ok

SpansOfMethods(methods) ==
    LET bodied == SelectSeq(methods, LAMBDA m : m.has_body)
    IN  [j \in 1..Len(bodied) |->
            [name |-> bodied[j].name,
             code |-> BracedSpan(java_code.lines, DeclarationLine(bodied[j]))]]

\* C20 (as claimed): the span returned for a method with a body, and for a
\* class of the text, runs from the line of the declaration to the line at
\* which the count of `{` minus `}`, taken from the first opening brace, is
\* first back at zero; a body opened and closed on one line gives that line.
C20_SpanIsBracedSpan ==
    /\ HasReturned("extract_methods")
          => \A n \in 1..Len(WalkedTree) :
                result.map[WalkedTree[n].name] = SpansOfMethods(WalkedTree[n].methods)
    /\ HasReturned("extract_classes")
          => \A n \in 1..Len(WalkedTree) :
                ~IsWrapper(WalkedTree[n])
                  => result.map[WalkedTree[n].name]
                       = Flatten(BracedSpan(java_code.lines, DeclarationLine(WalkedTree[n])))

\* the entries of a result for the classes other than the synthetic wrapper
WithoutWrapper(map) == [c \in (DOMAIN map) \ {"nan"} |-> map[c]]

\* the result of the same function on the explicitly wrapped form of the text
OfExplicitlyWrapped(f) ==
    IF f = "extract_methods"
    THEN ExtractMethodsOf(ExplicitlyWrapped(java_code))
    ELSE ExtractClassesOf(ExplicitlyWrapped(java_code))

\* the function has returned for a text that wrap_code_if_needed has wrapped
ReturnedForWrapped ==
    /\ pc = "returned" /\ result.f \in {"extract_methods", "extract_classes"}
    /\ WrapCodeIfNeeded(java_code).was_wrapped

\* C19 (as claimed): for a text that is wrapped internally, extract_methods
\* and extract_classes return, for every class other than the wrapper, what
\* they return for the text `public class nan {\n<text>\n}`.
C19_SameAsExplicitlyWrapped ==
    ReturnedForWrapped
        => /\ result.ok /\ OfExplicitlyWrapped(result.f).ok
           /\ WithoutWrapper(result.map) = WithoutWrapper(OfExplicitlyWrapped(result.f).map)


\* --- detect_relationships: what the returned lists hold for a field --------
GivenClasses == java_code.as_is.tree
Detected == HasReturned("detect_relationships")
FieldsOf(c) == {c.fields[f] : f \in 1..Len(c.fields)}
Holds(list, from, to) == \E i \in 1..Len(list) : list[i].from = from /\ list[i].to = to
ViaField(list, from, to) ==
    {i \in 1..Len(list) : list[i].from = from /\ list[i].to = to /\ list[i].via = "field"}
\* the classes of the text that a type argument of the field names
ArgumentClasses(field) ==
    {field.type.arguments[a].type.name : a \in 1..Len(field.type.arguments)}
      \cap NamesOf(GivenClasses)
AssignedNewInConstructor(c, field) ==
    \E k \in 1..Len(c.constructors), d \in 1..Len(field.declarators) :
        field.declarators[d] \in c.constructors[k].assigns_new

\* C17: once detect_relationships has returned, every field of a generic type
\* with a type argument that names a class of the text has an aggregation
\* entry from its class to that class and no composition entry to it,
\* whatever its modifiers and whatever the constructors assign.
C17_GenericFieldIsAggregation ==
    Detected =>
        \A n \in 1..Len(GivenClasses) : \A field \in FieldsOf(GivenClasses[n]) :
            \A to \in ArgumentClasses(field) :
                /\ Holds(result.relationships.aggregation, GivenClasses[n].name, to)
                /\ ~Holds(result.relationships.composition, GivenClasses[n].name, to)

\* C18: once detect_relationships has returned, every field without type
\* arguments whose type is a class of the text has exactly one entry with
\* via = "field" over the three lists: in the composition list when the field
\* is final, not public and assigned a `new` expression in a constructor of
\* its class, in the association list otherwise, never in the aggregation list.
C18_PlainFieldIsClassified ==
    Detected =>
        \A n \in 1..Len(GivenClasses) : \A field \in FieldsOf(GivenClasses[n]) :
            (field.type.arguments = <<>> /\ field.type.name \in NamesOf(GivenClasses)) =>
                LET from == GivenClasses[n].name
                    to == field.type.name
                    rel == result.relationships
                    composed == /\ "final" \in field.modifiers
                                /\ "public" \notin field.modifiers
                                /\ AssignedNewInConstructor(GivenClasses[n], field)
                IN  /\ ViaField(rel.aggregation, from, to) = {}
                    /\ Cardinality(ViaField(rel.composition, from, to)) = (IF composed THEN 1 ELSE 0)
                    /\ Cardinality(ViaField(rel.association, from, to)) = (IF composed THEN 0 ELSE 1)

\* --- loops whose condition compares a literal with a variable --------------
\* the statement is v++ / ++v (o = "++") or v-- / --v (o = "--")
IsStep(s, v, o) == s \in {StatementExpression(Postfix(v, o)), StatementExpression(Prefix(v, o))}
\* every statement of the loop body is such a step of v, and there is one
OnlySteps(node, v, o) ==
    /\ BodyStatements(node.body) # <<>>
    /\ \A i \in 1..Len(BodyStatements(node.body)) : IsStep(BodyStatements(node.body)[i], v, o)
\* while (literal op v) with a body that moves v in one direction only
MirroredWhile(node) ==
    /\ node.k = "WhileStatement"
    /\ node.condition.t = "BinaryOperation"
    /\ node.condition.operator \in {"<", "<=", ">", ">="}
    /\ node.condition.operandl.t = "Literal"
    /\ node.condition.operandr.t = "MemberReference"
    /\ node.condition.operandr = MemberReference(node.condition.operandr.member)
    /\ \E o \in {"++", "--"} : OnlySteps(node, node.condition.operandr.member, o)

\* C21 (as claimed): a while loop with the condition `literal op v`, op one
\* of <, <=, >, >=, and a body that only increments or only decrements v is
\* classified infinite when op is < or <= and v is incremented, or op is > or
\* >= and v is decremented, and finite in the opposite cases.
C21_MirroredVerdict ==
    \A ev \in Events("loop") : (ev.kind = "while" /\ MirroredWhile(ev.node)) =>
        LET op == ev.node.condition.operator
            v == ev.node.condition.operandr.member
            stays_true == \/ op \in {"<", "<="} /\ OnlySteps(ev.node, v, "++")
                          \/ op \in {">", ">="} /\ OnlySteps(ev.node, v, "--")
        IN  ev.verdict = IF stays_true THEN "infinite" ELSE "finite"

\* --- loops whose comparison does not decide termination -------------------
\* the expression of an update clause writes v
UpdateWrites(u, v) ==
    \/ u.t = "MemberReference" /\ u.member = v /\ HasOperators(u)
    \/ u.t = "Assignment" /\ u.expressionl.member = v
\* v is written by a statement of the loop body or, for a classic for loop, by
\* an expression of its update clause
WrittenInLoop(node, v) ==
    \/ \E i \in 1..Len(BodyStatements(node.body)) : StmtWrites(BodyStatements(node.body)[i], v)
    \/ /\ node.k = "ForStatement"
       /\ \E i \in 1..Len(node.update) : UpdateWrites(node.update[i], v)
\* v == literal, v != literal, literal == v, literal != v
ComparedForEquality(c, v) ==
    /\ c.t = "BinaryOperation" /\ c.operator \in {"==", "!="}
    /\ \/ c.operandl = MemberReference(v) /\ c.operandr.t = "Literal"
       \/ c.operandr = MemberReference(v) /\ c.operandl.t = "Literal"
Undecided(node) ==
    /\ node.k \in {"WhileStatement", "DoStatement"}
         \/ (node.k = "ForStatement" /\ node.control = "ForControl")
    /\ \E v \in ExtractVariablesFromExpression(node.condition) :
           ComparedForEquality(node.condition, v) /\ WrittenInLoop(node, v)

\* C22 (as claimed): a while, do-while or classic for loop that writes the
\* variable of its condition, in the body or in the update clause, and whose
\* comparison operator does not decide termination (== or != against a
\* literal) is classified finite and has a LOOP EXIT block with an edge from
\* its condition block.
C22_UndecidedIsFinite ==
    \A ev \in Events("loop") : (ev.kind \in {"while", "do", "for"} /\ Undecided(ev.node)) =>
        /\ ev.verdict = "finite"
        /\ TagAt(ev.exit_block) = "LOOP EXIT"
        /\ <<ev.cond_block, ev.exit_block>> \in cfg_edges

\* --- for loops counting with a compound assignment -------------------------
\* for (...; v op literal; v += k | v -= k) with a body that leaves v alone
CompoundFor(node) ==
    /\ node.k = "ForStatement" /\ node.control = "ForControl"
    /\ node.condition.t = "BinaryOperation"
    /\ node.condition.operator \in {"<", "<=", ">", ">="}
    /\ node.condition.operandl.t = "MemberReference"
    /\ node.condition.operandl = MemberReference(node.condition.operandl.member)
    /\ node.condition.operandr.t = "Literal"
    /\ Len(node.update) = 1
    /\ node.update[1].t = "Assignment"
    /\ node.update[1].expressionl = node.condition.operandl
    /\ node.update[1].type \in {"+=", "-="}
    /\ node.update[1].value.t = "Literal"
    /\ ~StmtWrites(node.body, node.condition.operandl.member)

\* the loop with v++ for v += k and v-- for v -= k
AsCounted(node) ==
    [node EXCEPT !.update = <<Postfix(node.condition.operandl.member,
                                      IF node.update[1].type = "+=" THEN "++" ELSE "--")>>]

\* C23 (as claimed): a for loop whose update clause is v += k or v -= k is
\* classified as the same loop with v++ or v-- is, whatever the body-based
\* verdict: for (...; v < N; v += k) with a body that does not write v is
\* finite.
C23_CompoundUpdateCounts ==
    \A ev \in Events("loop") : (ev.kind = "for" /\ CompoundFor(ev.node)) =>
        ev.verdict = IF MovesAway(AsCounted(ev.node)) THEN "infinite" ELSE "finite"

\* --- loops whose condition compares two integer literals --------------------
\* a op b over the integers
Compare(op, a, b) ==
    CASE op = "==" -> a = b
      [] op = "!=" -> a # b
      [] op = "<" -> a < b
      [] op = "<=" -> a <= b
      [] op = ">" -> a > b
      [] OTHER -> a >= b
LiteralComparison(c) ==
    /\ BothLiteral(c) /\ c.operator \in CmpOps
    /\ IsDigit(c.operandl.value) /\ IsDigit(c.operandr.value)

\* C24 (as claimed): a loop whose condition is `a op b` for integer literals
\* a and b and a comparison operator op is translated as never running when
\* a op b is false and is classified infinite when a op b is true.
C24_LiteralComparisonFolded ==
    \A ev \in Events("loop") :
        (ev.kind \in {"while", "do", "for"} /\ LiteralComparison(ev.node.condition)) =>
            LET c == ev.node.condition
            IN  ev.verdict = IF Compare(c.operator, NumOf(c.operandl.value), NumOf(c.operandr.value))
                             THEN "infinite" ELSE "never"

\* --- the edges of a loop classified finite ---------------------------------
FiniteLoops ==
    {ev \in Events("loop") : ev.kind \in {"while", "do", "for"} /\ ev.verdict = "finite"}
\* an edge into the condition block that comes from inside the loop
LoopsBack(ev) ==
    \E e \in Incoming(ev.cond_block) : e[1] \notin {ev.pred, ev.init_block, ev.cond_block}

\* C25 (as claimed): a while, do-while or classic for loop classified finite
\* has the edges condition -> body and condition -> LOOP EXIT and an edge
\* back into its condition block, whatever its body holds.
C25_FiniteLoopEdges ==
    \A ev \in FiniteLoops :
        /\ <<ev.cond_block, ev.body_block>> \in cfg_edges
        /\ LoopsBack(ev)
        /\ TagAt(ev.exit_block) = "LOOP EXIT"
        /\ <<ev.cond_block, ev.exit_block>> \in cfg_edges

\* C26 (as claimed): for every translated if statement the block that is
\* current when the translation of the then-branch ends has an edge to the
\* IF MERGE block, and so has the block current at the end of the
\* else-branch; without an else branch the condition block has an edge to
\* the merge block.
C26_BranchEndsMerge ==
    \A ev \in Events("if") :
        /\ TagAt(ev.merge_block) = "IF MERGE"
        /\ <<ev.then_end, ev.merge_block>> \in cfg_edges
        /\ IF ev.has_else
           THEN <<ev.else_end, ev.merge_block>> \in cfg_edges
           ELSE <<ev.cond_block, ev.merge_block>> \in cfg_edges

\* C27 (as claimed): translating a return statement creates a METHOD EXIT
\* block, leaves it current and connects the block the return was appended
\* to with it; in the finished graph that block has no other successor.
C27_ReturnEndsPath ==
    /\ [][Logs("return")
            => /\ NewEvent.block = current_block
               /\ NewEvent.exit = block_counter
               /\ cfg_nodes'[NewEvent.exit + 1].tag = "METHOD EXIT"
               /\ <<NewEvent.block, NewEvent.exit>> \in cfg_edges'
               /\ current_block' = NewEvent.exit]_vars
    /\ [](Done => \A ev \in Events("return") : \A e \in cfg_edges :
                      e[1] = ev.block => e[2] = ev.exit)

\* the loop was classified infinite because _analyze_loop_termination found
\* no write of a condition variable
NotModifiedVerdict(ev) ==
    /\ ev.verdict = "infinite"
    /\ AnalyzeLoopTermination(ev.kind, ev.node.condition, ev.node.body)
         = Verdict(TRUE, "Condition variables not modified in loop body")

\* C28 (as claimed): a while or do-while loop is classified infinite for the
\* reason that its condition variables are not modified only if no statement
\* of its body, at any depth, writes a variable the condition reads.
C28_NotModifiedMeansNoWrite ==
    \A ev \in Events("loop") : (ev.kind \in {"while", "do"} /\ NotModifiedVerdict(ev)) =>
        \A v \in ExtractVariablesFromExpression(ev.node.condition) : ~StmtWrites(ev.node.body, v)

\* the _process_method call of a lazy build has returned to
\* _process_method_invocation, which has not gone on yet
LazyBuildReturned == Running /\ Top.f = "call_resume"

\* C29 (as claimed): when the lazy build of a callee returns to the call
\* site, in_infinite_loop and the call stack are what they were before the
\* call, and the call is linked from the block that was current before it.
C29_LazyBuildKeepsState ==
    /\ LazyBuildReturned => (in_infinite_loop = Top.flag /\ call_stack = Top.stack)
    /\ \A ev \in ResolvedCalls : ev.lazy =>
           /\ ev.flag_at_link = ev.flag_before
           /\ <<ev.caller_block, ev.entry>> \in cfg_edges \/ ev.suppressed

\* --- break in a loop body ----------------------------------------------------
\* the statements of the loop body are plain statements, one of them a break:
\* all of them are appended to the body block
BreakInBody(node) ==
    /\ \E i \in 1..Len(BodyStatements(node.body)) : BodyStatements(node.body)[i] = BreakStatement
    /\ \A i \in 1..Len(BodyStatements(node.body)) : IsPlain(BodyStatements(node.body)[i])
\* the blocks of such a loop
LoopBlocks(ev) ==
    {ev.init_block, ev.cond_block, ev.body_block}
      \cup (IF ev.kind = "for" /\ HasUpdate(ev.node) THEN {ev.body_block + 1} ELSE {})
\* the blocks created after the loop
BlocksAfter(ev) == {b \in AllBlocks : \A l \in LoopBlocks(ev) : b > l}
\* the edges that do not touch the condition block of the loop
PastCondition(ev) == {e \in cfg_edges : e[1] # ev.cond_block /\ e[2] # ev.cond_block}

\* C30 (as claimed): once the build has finished, the block holding a break
\* of a while, do-while or for loop has a path to a block after the loop that
\* does not pass through the condition block of the loop.
C30_BreakLeavesLoop ==
    Done => \A ev \in Events("loop") :
                (ev.kind \in {"while", "do", "for"} /\ BreakInBody(ev.node)) =>
                    ReachSet(PastCondition(ev), {ev.body_block}) \cap BlocksAfter(ev) # {}

====
